---- MODULE Spec2Model ----
(***************************************************************************)
(* Model of the SDLC pipeline orchestration of agents-sdk-playground:      *)
(*   - ParallelValidator.validate_parallel and _merge_results              *)
(*     (src/agents/sdlc/parallel_validator.py),                            *)
(*   - SDLCOrchestrator._run_fix_loop, process_task, stream_process,       *)
(*     move_to_stage and process_tasks_parallel                            *)
(*     (src/agents/sdlc/orchestrator.py),                                  *)
(*   - FeatureOrchestrator.process_feature, its fix loops and _is_ui_file  *)
(*     (src/agents/sdlc/feature_orchestrator.py).                          *)
(* The agents (planner, builder, reviewers, tester, qa, debugger) are the  *)
(* environment: every awaited call ends with an outcome drawn from a       *)
(* bounded set (a result, a failure result, or a raised exception).        *)
(* A state of the model is a point where the coroutine is suspended at an  *)
(* await (pc = "await_...") or sits at a loop head or return point.        *)
(* Strings whose content the code inspects (paths, locations, problems)    *)
(* are sequences of one-character strings.                                 *)
(***************************************************************************)
EXTENDS Integers, Sequences, FiniteSets, TLC

VARIABLES
    mode,                 \* which entry point this behaviour exercises
    \* ---- ParallelValidator.validate_parallel ----
    vp_pc,                \* "idle" | "gather" | "returned"
    results,              \* results[i]: Pending or the outcome of instance i (gather's list)
    merged,               \* the MergedResult returned (MergedResult() before that)
    \* ---- the coroutine running process_task / _run_fix_loop / stream_process ----
    pc,                   \* program point
    task,                 \* the Task record
    phase,                \* _run_fix_loop: phase
    initial_findings,     \* _run_fix_loop: initial_findings
    current_findings,     \* _run_fix_loop: current_findings
    loop_count,           \* _run_fix_loop: loop_count
    issues_fixed_total,   \* _run_fix_loop: issues_fixed_total
    previous_finding_ids, \* _run_fix_loop: previous_finding_ids
    loop_result,          \* the FixLoopResult returned, or NoResult
    remaining,            \* the findings list returned with it
    raised,               \* message of the exception that left the coroutine, or NoExc
    \* ---- observers (history of what the code did) ----
    calls,                \* number of invocations per collaborator
    events,               \* number of fix-loop events/messages emitted by _run_fix_loop
    visited,              \* every value assigned to task.status, in order
    obs,                  \* facts about the collaborators' outcomes so far
    \* ---- SDLCOrchestrator.process_tasks_parallel ----
    pp,                   \* its frame, the registry self.tasks and its runs
    \* ---- FeatureOrchestrator.process_feature ----
    feat                  \* its frame and the FeatureResult it builds

vars == << mode, vp_pc, results, merged, pc, task, phase, initial_findings,
           current_findings, loop_count, issues_fixed_total, previous_finding_ids,
           loop_result, remaining, raised, calls, events, visited, obs, pp, feat >>

extVars  == << pp, feat >>
vpVars   == << vp_pc, results, merged >>
loopVars == << phase, initial_findings, current_findings, loop_count,
               issues_fixed_total, previous_finding_ids, loop_result, remaining >>
coreVars == << mode, vpVars, pc, task, loopVars, raised, calls, events, visited, obs >>

-----------------------------------------------------------------------------
(* Bounds of the model *)

MaxFindings == 2      \* longest findings list a collaborator returns
MaxLoops    == 4      \* iterations of the fix loop the model follows
MaxCalls    == 3      \* orchestrator calls on one task in a session of several calls

(* Program constants *)

MAX_IDENTICAL_LOOPS == 3
AgentCount          == 2
KeyProblemChars     == 50

\* Python's None for an optional string, and "no exception": the empty sequence
\* (every message the collaborators produce is non-empty)
None     == << >>
NoExc    == << >>
NoResult == "none"
Pending  == [kind |-> "pending"]

Min(a, b) == IF a <= b THEN a ELSE b

RECURSIVE SeqsUpTo(_, _)
SeqsUpTo(S, n) ==
    IF n = 0 THEN { << >> }
    ELSE LET shorter == SeqsUpTo(S, n - 1)
         IN  shorter \cup { Append(s, x) : s \in { t \in shorter : Len(t) = n - 1 }, x \in S }

Range(s) == { s[i] : i \in 1..Len(s) }

-----------------------------------------------------------------------------
(* Strings *)

Pad(n) == [i \in 1..n |-> "x"]

\* Python's s[:n]
Prefix(s, n) == SubSeq(s, 1, Min(n, Len(s)))

\* Python's  sub in s
IsSubstring(sub, s) ==
    \E i \in 0..(Len(s) - Len(sub)) : SubSeq(s, i + 1, i + Len(sub)) = sub

LowerChar(c) ==
    CASE c = "A" -> "a" [] c = "P" -> "p" [] c = "S" -> "s"
      [] c = "T" -> "t" [] c = "X" -> "x" [] OTHER -> c

\* Python's str.lower()
Lower(s) == [i \in 1..Len(s) |-> LowerChar(s[i])]

-----------------------------------------------------------------------------
(* Finding and the merge of ParallelValidator *)

\* f"{f.location}:{f.problem[:50]}"
DedupKey(f) == f.location \o << ":" >> \o Prefix(f.problem, KeyProblemChars)

IsException(r) == r.kind = "exception"

\* the inner loop of _merge_results over one result's findings:
\* acc = [findings |-> all_findings, seen |-> seen]
RECURSIVE MergeFindings(_, _)
MergeFindings(acc, fs) ==
    IF fs = << >> THEN acc
    ELSE LET f   == Head(fs)
             key == DedupKey(f)
         IN  IF key \notin acc.seen
             THEN MergeFindings([findings |-> Append(acc.findings, f),
                                 seen     |-> acc.seen \cup {key}], Tail(fs))
             ELSE MergeFindings(acc, Tail(fs))

\* f"Agent {i}: {str(result)}"
AgentError(i, msg) == << "Agent ", ToString(i), ": " >> \o msg

RECURSIVE MergeLoop_reversed(_, _, _)
MergeLoop_reversed(acc, rs, i) ==
    IF i > Len(rs) THEN acc
    ELSE LET k == Len(rs) - i + 1
         IN  IF IsException(rs[k])
             THEN MergeLoop_reversed([acc EXCEPT !.errors = Append(@, AgentError(k - 1, rs[k].msg))],
                                     rs, i + 1)
             ELSE LET m == MergeFindings([findings |-> acc.findings, seen |-> acc.seen],
                                         rs[k].findings)
                  IN  MergeLoop_reversed([acc EXCEPT !.findings = m.findings, !.seen = m.seen],
                                         rs, i + 1)

\* the outer loop of _merge_results, in index order
RECURSIVE MergeLoop(_, _, _)
MergeLoop(acc, rs, i) ==
    IF i > Len(rs) THEN acc
    ELSE IF IsException(rs[i])
         THEN MergeLoop([acc EXCEPT !.errors = Append(@, AgentError(i - 1, rs[i].msg))],
                        rs, i + 1)
         ELSE LET m == MergeFindings([findings |-> acc.findings, seen |-> acc.seen],
                                     rs[i].findings)
              IN  MergeLoop([acc EXCEPT !.findings = m.findings, !.seen = m.seen], rs, i + 1)

SuccessfulCount_all(rs) == Len(rs)

SuccessfulCount_by_flag(rs) ==
    Cardinality({ i \in 1..Len(rs) : ~IsException(rs[i]) /\ rs[i].success })

\* len([r for r in results if not isinstance(r, Exception)])
SuccessfulCount(rs) == Cardinality({ i \in 1..Len(rs) : ~IsException(rs[i]) })

\* "; ".join(errors)
RECURSIVE Join(_)
Join(errors) ==
    IF Len(errors) = 1 THEN errors[1]
    ELSE errors[1] \o << "; " >> \o Join(Tail(errors))

\* "; ".join(errors) if errors else None
JoinErrors(errors) == IF errors = << >> THEN None ELSE Join(errors)

MergeResults_flags_of_instances(rs) ==
    LET acc == MergeLoop([findings |-> << >>, seen |-> {}, errors |-> << >>], rs, 1)
        n   == SuccessfulCount(rs)
    IN  [ findings     |-> acc.findings,
          agent_count  |-> n,
          fix_required |-> \E i \in 1..Len(rs) : ~IsException(rs[i]) /\ rs[i].fix_required,
          success      |-> \E i \in 1..Len(rs) : ~IsException(rs[i]) /\ rs[i].success,
          error        |-> JoinErrors(acc.errors) ]

\* the MergedResult _merge_results returns
MergeResults(rs) ==
    LET acc == MergeLoop([findings |-> << >>, seen |-> {}, errors |-> << >>], rs, 1)
        n   == SuccessfulCount(rs)
    IN  [ findings     |-> acc.findings,
          agent_count  |-> n,
          fix_required |-> Len(acc.findings) > 0,
          success      |-> n > 0,
          error        |-> JoinErrors(acc.errors) ]

\* finding_counts after one more finding: a key seen before has its finding
\* replaced and its count raised, a new key is added at the end
CountFinding(counts, f) ==
    IF \E k \in 1..Len(counts) : counts[k].key = DedupKey(f)
    THEN [k \in 1..Len(counts) |->
            IF counts[k].key = DedupKey(f)
            THEN [key |-> counts[k].key, finding |-> f, count |-> counts[k].count + 1]
            ELSE counts[k]]
    ELSE Append(counts, [key |-> DedupKey(f), finding |-> f, count |-> 1])

RECURSIVE CountFindings(_, _)
CountFindings(counts, fs) ==
    IF fs = << >> THEN counts
    ELSE CountFindings(CountFinding(counts, Head(fs)), Tail(fs))

\* the loop of validate_with_consensus over the results, exceptions skipped
RECURSIVE ConsensusLoop(_, _, _)
ConsensusLoop(counts, rs, i) ==
    IF i > Len(rs) THEN counts
    ELSE IF IsException(rs[i])
         THEN ConsensusLoop(counts, rs, i + 1)
         ELSE ConsensusLoop(CountFindings(counts, rs[i].findings), rs, i + 1)

\* [finding for finding, count in finding_counts.values() if count >= min_agreement]
RECURSIVE ConsensusFindings(_, _)
ConsensusFindings(counts, min_agreement) ==
    IF counts = << >> THEN << >>
    ELSE IF Head(counts).count >= min_agreement
         THEN << Head(counts).finding >> \o ConsensusFindings(Tail(counts), min_agreement)
         ELSE ConsensusFindings(Tail(counts), min_agreement)

\* the MergedResult validate_with_consensus returns
ConsensusResults(rs, min_agreement) ==
    LET kept == ConsensusFindings(ConsensusLoop(<< >>, rs, 1), min_agreement)
        n    == SuccessfulCount(rs)
    IN  [ findings     |-> kept,
          agent_count  |-> n,
          fix_required |-> Len(kept) > 0,
          success      |-> n > 0,
          error        |-> None ]

-----------------------------------------------------------------------------
(* The findings the reviewer instances of the validator runs may report.    *)
(* M1/M2: different (location, problem) pairs with the same key string;     *)
(* M3/M4: problems that differ only after the 50th character;               *)
(* M5: the pair of M1 under another id; M6: an unrelated finding that       *)
(* carries the id of M1 (each instance numbers its own findings).            *)

MaxMergeFindings == 2    \* longest findings list of one validator instance

M1 == [id |-> "m1", location |-> << "a" >>,      problem |-> << ":", "b" >>]
M2 == [id |-> "m2", location |-> << "a", ":" >>, problem |-> << "b" >>]
M3 == [id |-> "m3", location |-> << "a" >>,      problem |-> Pad(KeyProblemChars) \o << "y" >>]
M4 == [id |-> "m4", location |-> << "a" >>,      problem |-> Pad(KeyProblemChars) \o << "z" >>]
M5 == [id |-> "m5", location |-> << "a" >>,      problem |-> << ":", "b" >>]
M6 == [id |-> "m1", location |-> << "c" >>,      problem |-> << "d" >>]

MergeUniverse == { M1, M2, M3, M4, M5, M6 }

Boom == << "b", "o", "o", "m" >>

ExceptionOutcome == [kind |-> "exception", msg |-> Boom]

\* the result of an instance that ran to its end and reports its findings
ResultOutcome(fs) ==
    [kind |-> "result", findings |-> fs, fix_required |-> fs # << >>, success |-> TRUE]

\* results whose own flags disagree with their findings: a failure result that
\* asks for a fix without findings, and findings reported with no fix required
OddOutcomes ==
    { [kind |-> "result", findings |-> << >>, fix_required |-> TRUE, success |-> FALSE],
      [kind |-> "result", findings |-> << M1 >>, fix_required |-> FALSE, success |-> TRUE] }

InstanceOutcomes ==
    { ExceptionOutcome } \cup OddOutcomes \cup
    { ResultOutcome(fs) : fs \in SeqsUpTo(MergeUniverse, MaxMergeFindings) }

AllDone(rs) == \A i \in 1..Len(rs) : rs[i].kind # "pending"

-----------------------------------------------------------------------------
(* ParallelValidator.validate_parallel *)

\* create the agents and hand one coroutine per instance to asyncio.gather
VP_Start ==
    /\ mode = "validator"
    /\ vp_pc = "idle"
    /\ results' = [i \in 1..AgentCount |-> Pending]
    /\ vp_pc' = "gather"
    /\ UNCHANGED extVars
    /\ UNCHANGED << mode, merged, pc, task, loopVars, raised, calls, events, visited, obs >>

\* the mutant of VP_InstanceDone in which an instance that raises cancels
\* the instances still running
VP_InstanceDone_cancelling ==
    /\ mode = "validator"
    /\ vp_pc \in { "gather", "gather_consensus" }
    /\ \E i \in 1..AgentCount, o \in InstanceOutcomes :
          /\ results[i].kind = "pending"
          /\ results' = IF o.kind = "exception"
                        THEN [j \in 1..AgentCount |->
                                IF results[j].kind = "pending" THEN o ELSE results[j]]
                        ELSE [results EXCEPT ![i] = o]
          /\ obs' = [obs EXCEPT !.finished = Append(@, i)]
    /\ UNCHANGED extVars
    /\ UNCHANGED << mode, vp_pc, merged, pc, task, loopVars, raised, calls, events, visited >>

\* instance i finishes (in any order): gather stores its result, or the
\* exception it raised (return_exceptions=True), at index i
VP_InstanceDone ==
    /\ mode = "validator"
    /\ vp_pc \in { "gather", "gather_consensus" }
    /\ \E i \in 1..AgentCount, o \in InstanceOutcomes :
          /\ results[i].kind = "pending"
          /\ results' = [results EXCEPT ![i] = o]
          /\ obs' = [obs EXCEPT !.finished = Append(@, i)]
    /\ UNCHANGED extVars
    /\ UNCHANGED << mode, vp_pc, merged, pc, task, loopVars, raised, calls, events, visited >>

\* gather returns once every instance is done; the merge runs on its list
VP_Join ==
    /\ mode = "validator"
    /\ vp_pc = "gather"
    /\ AllDone(results)
    /\ merged' = MergeResults(results)
    /\ vp_pc' = "returned"
    /\ UNCHANGED extVars
    /\ UNCHANGED << mode, results, pc, task, loopVars, raised, calls, events, visited, obs >>

-----------------------------------------------------------------------------
(* ParallelValidator.validate_with_consensus *)

\* create the agents and hand one coroutine per instance to asyncio.gather
VC_Start ==
    /\ mode = "validator"
    /\ vp_pc = "idle"
    /\ \E min_agreement \in 1..AgentCount :
          obs' = [obs EXCEPT !.min_agreement = min_agreement]
    /\ results' = [i \in 1..AgentCount |-> Pending]
    /\ vp_pc' = "gather_consensus"
    /\ UNCHANGED extVars
    /\ UNCHANGED << mode, merged, pc, task, loopVars, raised, calls, events, visited >>

\* gather returns once every instance is done; the findings with enough
\* agreement are returned
VC_Join ==
    /\ mode = "validator"
    /\ vp_pc = "gather_consensus"
    /\ AllDone(results)
    /\ merged' = ConsensusResults(results, obs.min_agreement)
    /\ vp_pc' = "returned_consensus"
    /\ UNCHANGED extVars
    /\ UNCHANGED << mode, results, pc, task, loopVars, raised, calls, events, visited, obs >>

-----------------------------------------------------------------------------
(* SDLCOrchestrator._run_fix_loop *)

\* Findings the validators and the debugger of the fix loop report:
\* F1 and F1b carry the same id with different other fields.
F1  == [id |-> "F1", location |-> << "a" >>, problem |-> << "p" >>]
F1b == [id |-> "F1", location |-> << "b" >>, problem |-> << "q" >>]
F2  == [id |-> "F2", location |-> << "a" >>, problem |-> << "r" >>]

LoopUniverse == { F1, F1b, F2 }

\* the findings lists they return: up to MaxFindings findings, none listed twice
FindingLists == { fs \in SeqsUpTo(LoopUniverse, MaxFindings) : Cardinality(Range(fs)) = Len(fs) }

\* the findings lists the collaborators of a process_task run return:
\* one finding at most before the QA phase, up to two in it; in a session of
\* several calls on one task the validators find nothing
TaskFindingLists(ph) ==
    IF obs.session = "multi" THEN { << >> }
    ELSE IF ph = "qa" THEN { << >>, << F1 >>, << F1, F2 >> } ELSE { << >>, << F1 >> }

ListsFor(m, ph) == IF m = "loop" THEN FindingLists ELSE TaskFindingLists(ph)

\* {f.id for f in current_findings}
IdSet(fs) == { fs[i].id : i \in 1..Len(fs) }

\* previous_finding_ids[-n:]
LastN(s, n) == SubSeq(s, Len(s) - Min(n, Len(s)) + 1, Len(s))

\* sum(1 for prev in previous_finding_ids[-MAX_IDENTICAL_LOOPS:] if prev == current_ids)
IdenticalCount(prev, ids) ==
    LET last == LastN(prev, MAX_IDENTICAL_LOOPS)
    IN  Cardinality({ i \in 1..Len(last) : last[i] = ids })

IsDeadlock_one_late(identical_count) == identical_count > MAX_IDENTICAL_LOOPS

IsDeadlock_any_repeat(identical_count) == identical_count >= 1

IsDeadlock_one_early(identical_count) == identical_count >= MAX_IDENTICAL_LOOPS - 1

\* if identical_count >= self.MAX_IDENTICAL_LOOPS
IsDeadlock(identical_count) == identical_count >= MAX_IDENTICAL_LOOPS

LoopContinues_do_while(findings) == TRUE

\* while current_findings:
LoopContinues(findings) == findings # << >>

ValidateClears_inverted(v) == v.fix_required

ValidateClears_needs_success(v) == ~v.fix_required /\ v.success

\* if not validate_result.fix_required
ValidateClears(v) == ~v.fix_required

DebugRediagnosed_flag_only(d) == d.fix_required

\* if debug_result.fix_required and debug_result.findings
DebugRediagnosed(d) == d.fix_required /\ d.findings # << >>

FixedOnClear_unchanged(total, findings) == total

\* issues_fixed_total += len(current_findings)
FixedOnClear(total, findings) == total + Len(findings)

FixedThisLoop_counts_validated(findings, validated) == Len(validated)

FixedThisLoop_never_negative(findings, validated) ==
    IF Len(findings) >= Len(validated) THEN Len(findings) - Len(validated) ELSE 0

\* issues_fixed_this_loop = len(current_findings) - len(validate_result.findings)
FixedThisLoop(findings, validated) == Len(findings) - Len(validated)

FixLoopStats(ph, loops, fixed, left, maxed) ==
    [ phase |-> ph, loops_run |-> loops, issues_fixed |-> fixed,
      issues_remaining |-> left, max_loops_reached |-> maxed ]

WhileExit_recording(t, ph, loops, total) ==
    [t EXCEPT !.fix_loop_stats = Append(@, FixLoopStats(ph, loops, total, 0, FALSE))]

\* the while condition is false: return FixLoopResult.FIXED, [] with the task
\* as it is (no FixLoopStats entry is appended on this exit)
WhileExit(t, ph, loops, total) == t

\* no collaborator invoked yet by this run of _run_fix_loop
NoCalls == [ fix |-> 0, debug |-> 0, validate |-> 0 ]

StartCall_validating_at_once(c, who) ==
    [c EXCEPT ![who] = @ + 1, !.validate = @ + (IF who = "fix" THEN 1 ELSE 0)]

\* await fix_func(...), await self.debugger.analyze_failure(...) or
\* await validate_func(...): the one collaborator the coroutine now waits for
StartCall(c, who) == [c EXCEPT ![who] = @ + 1]

\* Outcomes of the awaited collaborators
Raise(msg)  == [kind |-> "raise", msg |-> msg]

FixOutcomes ==
    { [kind |-> "result", success |-> TRUE,  error |-> None],
      [kind |-> "result", success |-> FALSE, error |-> Boom],
      Raise(Boom) }

FindingsOutcomes(lists) ==
    { [kind |-> "result", fix_required |-> b, findings |-> fs, success |-> TRUE] :
         b \in BOOLEAN, fs \in lists }
    \cup { Raise(Boom) }

\* except Exception as e: return ReviewResult(success=False, error=str(e)):
\* the validator failed, and fix_required and findings keep their defaults
ValidatorFailure ==
    [kind |-> "result", fix_required |-> FALSE, findings |-> << >>, success |-> FALSE]

\* what validate_func returns to _run_fix_loop
ValidateOutcomes(lists) == FindingsOutcomes(lists) \cup { ValidatorFailure }

\* the start of _run_fix_loop (lines 277-282) for the given arguments
EnterFixLoop(ph, findings) ==
    /\ phase' = ph
    /\ initial_findings' = findings
    /\ current_findings' = findings
    /\ loop_count' = 0
    /\ issues_fixed_total' = 0
    /\ previous_finding_ids' = << >>
    /\ loop_result' = NoResult
    /\ remaining' = << >>
    /\ calls' = NoCalls
    /\ events' = 0
    /\ pc' = "fl_top"

\* _run_fix_loop's frame is gone: its locals and this run's observers are cleared
LeaveFixLoop ==
    /\ phase' = "none"
    /\ initial_findings' = << >>
    /\ current_findings' = << >>
    /\ loop_count' = 0
    /\ issues_fixed_total' = 0
    /\ previous_finding_ids' = << >>
    /\ loop_result' = NoResult
    /\ remaining' = << >>
    /\ calls' = NoCalls
    /\ events' = 0

\* the loop head: the while test, the deadlock test, and the call of fix_func
FL_Top ==
    /\ pc = "fl_top"
    /\ LoopContinues(current_findings) => loop_count < MaxLoops
    /\ IF ~LoopContinues(current_findings)
       THEN /\ loop_result' = "FIXED"
            /\ remaining' = << >>
            /\ pc' = "fl_returned"
            /\ task' = WhileExit(task, phase, loop_count, issues_fixed_total)
            /\ UNCHANGED << loop_count, previous_finding_ids, calls, events >>
       ELSE LET current_ids     == IdSet(current_findings)
                identical_count == IdenticalCount(previous_finding_ids, current_ids)
            IN  /\ loop_count' = loop_count + 1
                /\ IF IsDeadlock(identical_count)
                   THEN /\ events' = events + 1
                        /\ task' = [task EXCEPT !.fix_loop_stats =
                                      Append(@, FixLoopStats(phase, loop_count + 1,
                                                             issues_fixed_total,
                                                             Len(current_findings), TRUE))]
                        /\ loop_result' = "MAX_LOOPS_REACHED"
                        /\ remaining' = current_findings
                        /\ pc' = "fl_returned"
                        /\ UNCHANGED << previous_finding_ids, calls >>
                   ELSE /\ previous_finding_ids' = Append(previous_finding_ids, current_ids)
                        /\ events' = events + 2
                        /\ calls' = StartCall(calls, "fix")
                        /\ pc' = "await_fix"
                        /\ UNCHANGED << task, loop_result, remaining >>
    /\ obs' = [obs EXCEPT !.debug = << >>]
    /\ UNCHANGED extVars
    /\ UNCHANGED << mode, vpVars, phase, initial_findings, current_findings,
                    issues_fixed_total, raised, visited >>

\* fix_func returns or raises; on failure the debugger is called, else validate_func
FL_FixReturn ==
    /\ pc = "await_fix"
    /\ \E o \in FixOutcomes :
          CASE o.kind = "raise" ->
                 /\ raised' = o.msg
                 /\ pc' = "raised"
                 /\ UNCHANGED << calls, obs >>
            [] o.kind = "result" /\ ~o.success ->
                 /\ calls' = StartCall(calls, "debug")
                 /\ pc' = "await_debug"
                 /\ UNCHANGED << raised, obs >>
            [] OTHER ->
                 /\ calls' = StartCall(calls, "validate")
                 /\ pc' = "await_validate"
                 /\ UNCHANGED << raised, obs >>
    /\ UNCHANGED extVars
    /\ UNCHANGED << mode, vpVars, task, loopVars, events, visited >>

\* debugger.analyze_failure returns or raises
FL_DebugReturn ==
    /\ pc = "await_debug"
    /\ \E d \in FindingsOutcomes(ListsFor(mode, phase)) :
          IF d.kind = "raise"
          THEN /\ raised' = d.msg
               /\ pc' = "raised"
               /\ UNCHANGED << current_findings, loop_result, remaining, events, obs >>
          ELSE /\ events' = events + 1
               /\ obs' = [obs EXCEPT !.debug = << d.fix_required, d.findings >>]
               /\ UNCHANGED raised
               /\ IF DebugRediagnosed(d)
                  THEN /\ current_findings' = d.findings
                       /\ pc' = "fl_top"
                       /\ UNCHANGED << loop_result, remaining >>
                  ELSE /\ loop_result' = "FAILED"
                       /\ remaining' = current_findings
                       /\ pc' = "fl_returned"
                       /\ UNCHANGED current_findings
    /\ UNCHANGED extVars
    /\ UNCHANGED << mode, vpVars, task, phase, initial_findings, loop_count,
                    issues_fixed_total, previous_finding_ids, calls, visited >>

\* validate_func returns or raises
FL_ValidateReturn ==
    /\ pc = "await_validate"
    /\ \E v \in ValidateOutcomes(ListsFor(mode, phase)) :
          IF v.kind = "raise"
          THEN /\ raised' = v.msg
               /\ pc' = "raised"
               /\ UNCHANGED << task, current_findings, issues_fixed_total,
                               loop_result, remaining, events, obs >>
          ELSE /\ events' = events + 1
               /\ obs' = [obs EXCEPT !.cleared = ~v.fix_required,
                                      !.validator_failed = ~v.success]
               /\ UNCHANGED raised
               /\ IF ValidateClears(v)
                  THEN /\ issues_fixed_total' =
                             FixedOnClear(issues_fixed_total, current_findings)
                       /\ task' = [task EXCEPT !.fix_loop_stats =
                                     Append(@, FixLoopStats(phase, loop_count,
                                                 FixedOnClear(issues_fixed_total,
                                                              current_findings),
                                                 0, FALSE))]
                       /\ loop_result' = "FIXED"
                       /\ remaining' = << >>
                       /\ pc' = "fl_returned"
                       /\ UNCHANGED current_findings
                  ELSE /\ issues_fixed_total' =
                             issues_fixed_total + FixedThisLoop(current_findings, v.findings)
                       /\ current_findings' = v.findings
                       /\ pc' = "fl_top"
                       /\ UNCHANGED << task, loop_result, remaining >>
    /\ UNCHANGED extVars
    /\ UNCHANGED << mode, vpVars, phase, initial_findings, loop_count,
                    previous_finding_ids, calls, visited >>

-----------------------------------------------------------------------------
(* FeatureOrchestrator._is_ui_file *)

UiIndicators ==
    { << ".", "t", "s", "x" >>, << ".", "j", "s", "x" >>,
      << "c", "o", "m", "p", "o", "n", "e", "n", "t" >>,
      << "p", "a", "g", "e" >>, << "v", "i", "e", "w" >>,
      << "/", "u", "i", "/" >>,
      << "/", "c", "o", "m", "p", "o", "n", "e", "n", "t", "s", "/" >>,
      << "/", "p", "a", "g", "e", "s", "/" >> }

\* any(ind in path.lower() for ind in ui_indicators)
IsUiFile(path) == \E ind \in UiIndicators : IsSubstring(ind, Lower(path))

-----------------------------------------------------------------------------
(* SDLCOrchestrator.process_task *)

UtilPy   == << "u", ".", "p", "y" >>
ATsx     == << "a", ".", "t", "s", "x" >>
UpperTsx == << "A", ".", "T", "S", "X" >>

\* what builder.build reports: (files_modified, files_created)
BuildReports ==
    { [files_modified |-> << >>,          files_created |-> << >>],
      [files_modified |-> << >>,          files_created |-> << UtilPy >>],
      [files_modified |-> << >>,          files_created |-> << ATsx >>],
      [files_modified |-> << UpperTsx >>, files_created |-> << >>] }

PlanOutcomes ==
    { [kind |-> "result", success |-> TRUE,  error |-> None, spec |-> "S",
       files_to_modify |-> << UtilPy >>, files_to_create |-> << >>],
      [kind |-> "result", success |-> FALSE, error |-> Boom, spec |-> "",
       files_to_modify |-> << >>, files_to_create |-> << >>],
      Raise(Boom) }

BuildOutcomes ==
    { [kind |-> "result", success |-> TRUE, error |-> None,
       files_modified |-> r.files_modified, files_created |-> r.files_created] :
         r \in BuildReports }
    \cup { [kind |-> "result", success |-> FALSE, error |-> Boom,
            files_modified |-> << >>, files_created |-> << >>],
           Raise(Boom) }

\* except Exception as e: return ReviewResult(success=False, error=str(e)):
\* an instance that failed without raising
FailureOutcome ==
    [kind |-> "result", findings |-> << >>, fix_required |-> FALSE, success |-> FALSE]

TaskInstanceOutcomes(ph) ==
    { ExceptionOutcome, FailureOutcome }
        \cup { ResultOutcome(fs) : fs \in TaskFindingLists(ph) }

\* what asyncio.gather hands to _merge_results: one outcome per instance
GatherResults(ph) == [1..AgentCount -> TaskInstanceOutcomes(ph)]

\* task.status = s, with no call of _emit_status (stream_process and the
\* exception branch of process_tasks_parallel)
AssignStatus(t, s) == [t EXCEPT !.status = s]

\* _emit_status: task.updated_at = datetime.now(), then the listener is called
\* with the task. updated_at is a logical clock: the number of stamps.
EmitStatus(t) == [t EXCEPT !.updated_at = @ + 1]

\* task.status = s ; self._emit_status(task)
SetStatus(t, s) == EmitStatus(AssignStatus(t, s))

\* f"QA: {len(remaining)} issues remaining after max loops"
QaError(left) == << "QA: ", ToString(Len(left)), " issues remaining after max loops" >>

Fail_repr(t, msg) ==
    /\ task' = [SetStatus(t, "FAILED") EXCEPT !.error = << "Exception('" >> \o msg \o << "')" >>]
    /\ visited' = Append(visited, "FAILED")
    /\ pc' = "done"

\* except Exception as e: task.status = FAILED ; task.error = str(e)
Fail(t, msg) ==
    /\ task' = [SetStatus(t, "FAILED") EXCEPT !.error = msg]
    /\ visited' = Append(visited, "FAILED")
    /\ pc' = "done"

NeedsFixLoop(m) == m.fix_required /\ m.findings # << >>

\* if task.files_created:
RunsUiReview(t) == t.files_created # << >>

StartTesting_unannounced(t, v) ==
    /\ task' = t
    /\ visited' = v
    /\ pc' = "await_test"

\* phase 5 onwards: TESTING, then the parallel testers are awaited
StartTesting(t, v) ==
    /\ task' = SetStatus(t, "TESTING")
    /\ visited' = Append(v, "TESTING")
    /\ pc' = "await_test"

\* phase 4: UI_REVIEWING when files were created, else on to phase 5
StartUiReviewOrTesting(t, v) ==
    IF RunsUiReview(t)
    THEN /\ task' = SetStatus(t, "UI_REVIEWING")
         /\ visited' = Append(v, "UI_REVIEWING")
              /\ pc' = "await_ui"
    ELSE StartTesting(t, v)

\* phase 6: QA_CHECKING, then the parallel QA agents are awaited
StartQa(t, v) ==
    /\ task' = SetStatus(t, "QA_CHECKING")
    /\ visited' = Append(v, "QA_CHECKING")
    /\ pc' = "await_qa"

Ship(t, v) ==
    /\ task' = SetStatus(t, "SHIPPED")
    /\ visited' = Append(v, "SHIPPED")
    /\ pc' = "done"

QaLeavesPartial_only_on_failed(result, left) == result = "FAILED"

\* if remaining:
QaLeavesPartial(result, left) == left # << >>

\* the end of phase 6 after the fix loop returned
FinishQa(t, v, result, left) ==
    IF QaLeavesPartial(result, left)
    THEN /\ task' = [SetStatus(t, "PARTIAL") EXCEPT !.error = QaError(left)]
         /\ visited' = Append(v, "PARTIAL")
         /\ pc' = "done"
    ELSE Ship(t, v)

\* no call of the orchestrator is running on the task, and the session may
\* make another one
CanCall ==
    \/ mode = "task" /\ pc = "idle"
    \/ /\ mode \in { "process_task", "stream_process", "move_to_stage" }
       /\ pc = "done"
       /\ obs.session = "multi"
       /\ obs.ncalls < MaxCalls

\* the observations of a new call on the task
NewCall(o) ==
    [o EXCEPT !.ncalls = @ + 1, !.cleared = FALSE, !.instance_raised = FALSE,
              !.all_raised = FALSE, !.all_failed = FALSE, !.loop_failed = FALSE,
              !.built = << >>, !.qa_exit = << >>,
              !.rejected = "none", !.yielded = << >>]

\* process_task up to its first await (planner.plan), called directly, by
\* process_tasks_parallel or by move_to_stage(task_id, "plan")
PT_Start ==
    /\ CanCall
    /\ mode' = "process_task"
    /\ task' = SetStatus(task, "PLANNING")
    /\ visited' = Append(visited, "PLANNING")
    /\ pc' = "await_plan"
    /\ raised' = NoExc
    /\ obs' = NewCall(obs)
    /\ UNCHANGED extVars
    /\ UNCHANGED << vpVars, loopVars, calls, events >>

\* planner.plan returns or raises; on success BUILDING and builder.build
PT_PlanReturn ==
    /\ pc = "await_plan"
    /\ \E o \in PlanOutcomes :
          CASE o.kind = "raise" ->
                 /\ raised' = o.msg
                 /\ Fail(task, o.msg)
            [] o.kind = "result" /\ ~o.success ->
                 /\ Fail(task, << "Planning failed: " >> \o o.error)
                 /\ UNCHANGED raised
            [] OTHER ->
                 /\ task' = SetStatus([task EXCEPT !.spec = o.spec,
                                                   !.files_modified = o.files_to_modify,
                                                   !.files_created = o.files_to_create],
                                      "BUILDING")
                 /\ visited' = Append(visited, "BUILDING")
                 /\ pc' = "await_build"
                 /\ UNCHANGED raised
    /\ UNCHANGED extVars
    /\ UNCHANGED << mode, vpVars, loopVars, calls, events, obs >>

\* builder.build returns or raises; on success REVIEWING and the parallel review
PT_BuildReturn ==
    /\ pc = "await_build"
    /\ \E o \in BuildOutcomes :
          CASE o.kind = "raise" ->
                 /\ raised' = o.msg
                 /\ Fail(task, o.msg)
                 /\ UNCHANGED obs
            [] o.kind = "result" /\ ~o.success ->
                 /\ Fail(task, << "Building failed: " >> \o o.error)
                 /\ UNCHANGED << raised, obs >>
            [] OTHER ->
                 /\ task' = SetStatus([task EXCEPT !.files_modified = o.files_modified,
                                                   !.files_created = o.files_created],
                                      "REVIEWING")
                 /\ visited' = Append(visited, "REVIEWING")
                              /\ obs' = [obs EXCEPT !.built = << o.files_created, o.files_modified >>]
                 /\ pc' = "await_review"
                 /\ UNCHANGED raised
    /\ UNCHANGED extVars
    /\ UNCHANGED << mode, vpVars, loopVars, calls, events >>

SomeRaised(rs) == \E i \in 1..Len(rs) : IsException(rs[i])

AllRaised(rs) == \A i \in 1..Len(rs) : IsException(rs[i])

\* every instance returned a result whose success flag is false
AllFailed(rs) == \A i \in 1..Len(rs) : ~IsException(rs[i]) /\ ~rs[i].success

\* _parallel_review returns the merge of its instances' outcomes
PT_ReviewReturn ==
    /\ pc = "await_review"
    /\ \E rs \in GatherResults("code_review") :
          LET review_result == MergeResults(rs)
          IN  /\ obs' = [obs EXCEPT !.instance_raised = @ \/ SomeRaised(rs),
                                       !.all_raised = @ \/ AllRaised(rs), !.cleared = FALSE,
                                       !.all_failed = AllFailed(rs)]
              /\ IF ~review_result.success
                 THEN /\ Fail(task, << "Review failed: " >> \o review_result.error)
                      /\ UNCHANGED << loopVars, calls, events >>
                 ELSE IF NeedsFixLoop(review_result)
                 THEN /\ EnterFixLoop("code_review", review_result.findings)
                      /\ UNCHANGED << task, visited >>
                 ELSE /\ StartUiReviewOrTesting(task, visited)
                      /\ UNCHANGED << loopVars, calls, events >>
    /\ UNCHANGED extVars
    /\ UNCHANGED << mode, vpVars, raised >>

\* _parallel_ui_review returns
PT_UiReturn ==
    /\ pc = "await_ui"
    /\ \E rs \in GatherResults("ui_review") :
          LET ui_result == MergeResults(rs)
          IN  /\ obs' = [obs EXCEPT !.instance_raised = @ \/ SomeRaised(rs),
                                       !.all_raised = @ \/ AllRaised(rs), !.cleared = FALSE,
                                       !.all_failed = AllFailed(rs)]
              /\ IF NeedsFixLoop(ui_result)
                 THEN /\ EnterFixLoop("ui_review", ui_result.findings)
                      /\ UNCHANGED << task, visited >>
                 ELSE /\ StartTesting(task, visited)
                      /\ UNCHANGED << loopVars, calls, events >>
    /\ UNCHANGED extVars
    /\ UNCHANGED << mode, vpVars, raised >>

\* _parallel_test returns
PT_TestReturn ==
    /\ pc = "await_test"
    /\ \E rs \in GatherResults("testing") :
          LET test_result == MergeResults(rs)
          IN  /\ obs' = [obs EXCEPT !.instance_raised = @ \/ SomeRaised(rs),
                                       !.all_raised = @ \/ AllRaised(rs), !.cleared = FALSE,
                                       !.all_failed = AllFailed(rs)]
              /\ IF NeedsFixLoop(test_result)
                 THEN /\ EnterFixLoop("testing", test_result.findings)
                      /\ UNCHANGED << task, visited >>
                 ELSE /\ StartQa(task, visited)
                      /\ UNCHANGED << loopVars, calls, events >>
    /\ UNCHANGED extVars
    /\ UNCHANGED << mode, vpVars, raised >>

\* _parallel_qa returns
PT_QaReturn ==
    /\ pc = "await_qa"
    /\ \E rs \in GatherResults("qa") :
          LET qa_result == MergeResults(rs)
          IN  /\ obs' = [obs EXCEPT !.instance_raised = @ \/ SomeRaised(rs),
                                       !.all_raised = @ \/ AllRaised(rs), !.cleared = FALSE,
                                       !.all_failed = AllFailed(rs)]
              /\ IF NeedsFixLoop(qa_result)
                 THEN /\ EnterFixLoop("qa", qa_result.findings)
                      /\ UNCHANGED << task, visited >>
                 ELSE /\ Ship(task, visited)
                      /\ UNCHANGED << loopVars, calls, events >>
    /\ UNCHANGED extVars
    /\ UNCHANGED << mode, vpVars, raised >>

\* _run_fix_loop has returned to process_task
PT_FixLoopReturned ==
    /\ mode = "process_task"
    /\ pc = "fl_returned"
    /\ CASE phase = "code_review" ->
              /\ IF loop_result = "FAILED"
                 THEN Fail(task, << "Code review fix-loop failed" >>)
                 ELSE StartUiReviewOrTesting(task, visited)
              /\ LeaveFixLoop
         [] phase = "ui_review" -> StartTesting(task, visited) /\ LeaveFixLoop
         [] phase = "testing"   -> StartQa(task, visited) /\ LeaveFixLoop
         [] OTHER               -> FinishQa(task, visited, loop_result, remaining) /\ LeaveFixLoop
    /\ obs' = [obs EXCEPT !.loop_failed = @ \/ (loop_result = "FAILED"),
                           !.debug = << >>,
                           !.validator_failed = FALSE,
                           !.qa_exit = IF phase = "qa"
                                       THEN << loop_result, Len(remaining) >> ELSE @]
    /\ UNCHANGED extVars
    /\ UNCHANGED << mode, vpVars, raised >>

\* an exception left _run_fix_loop: process_task's except clause
PT_Except ==
    /\ mode = "process_task"
    /\ pc = "raised"
    /\ Fail(task, raised)
    /\ LeaveFixLoop
    /\ UNCHANGED extVars
    /\ UNCHANGED << mode, vpVars, raised, obs >>

-----------------------------------------------------------------------------
(* SDLCOrchestrator.stream_process *)

StreamOutcomes == { [kind |-> "done"], Raise(Boom) }

\* except Exception as e: task.status = FAILED ; task.error = str(e)
\* and a yielded error event; _emit_status is not called
ST_Fail(msg) ==
    /\ raised' = msg
    /\ task' = [AssignStatus(task, "FAILED") EXCEPT !.error = msg]
    /\ visited' = Append(visited, "FAILED")
    /\ pc' = "done"

\* stream_process up to the planner's stream
ST_Start ==
    /\ CanCall
    /\ mode' = "stream_process"
    /\ task' = AssignStatus(task, "PLANNING")
    /\ visited' = Append(visited, "PLANNING")
    /\ pc' = "stream_plan"
    /\ raised' = NoExc
    /\ obs' = NewCall(obs)
    /\ UNCHANGED extVars
    /\ UNCHANGED << vpVars, loopVars, calls, events >>

\* planner.stream_plan is exhausted or raises
ST_PlanDone ==
    /\ pc = "stream_plan"
    /\ \E o \in StreamOutcomes, text \in { "", "S" } :
          IF o.kind = "raise"
          THEN ST_Fail(o.msg)
          ELSE /\ task' = AssignStatus([task EXCEPT !.spec = text], "BUILDING")
               /\ visited' = Append(visited, "BUILDING")
               /\ pc' = "stream_build"
               /\ UNCHANGED raised
    /\ UNCHANGED extVars
    /\ UNCHANGED << mode, vpVars, loopVars, calls, events, obs >>

\* builder.stream_build is exhausted or raises; Write/Edit tool calls were
\* appended to files_created/files_modified
ST_BuildDone ==
    /\ pc = "stream_build"
    /\ \E o \in StreamOutcomes, r \in BuildReports :
          IF o.kind = "raise"
          THEN ST_Fail(o.msg) /\ UNCHANGED obs
          ELSE /\ task' = AssignStatus([task EXCEPT
                                          !.files_modified = @ \o r.files_modified,
                                          !.files_created = @ \o r.files_created],
                                       "REVIEWING")
               /\ visited' = Append(visited, "REVIEWING")
                          /\ obs' = [obs EXCEPT !.built = << r.files_created, r.files_modified >>]
               /\ pc' = "stream_review"
               /\ UNCHANGED raised
    /\ UNCHANGED extVars
    /\ UNCHANGED << mode, vpVars, loopVars, calls, events >>

\* reviewer.stream_review is exhausted or raises; SHIPPED with either verdict
ST_ReviewDone ==
    /\ pc = "stream_review"
    /\ \E o \in StreamOutcomes :
          IF o.kind = "raise"
          THEN ST_Fail(o.msg)
          ELSE /\ task' = AssignStatus(task, "SHIPPED")
               /\ visited' = Append(visited, "SHIPPED")
               /\ pc' = "done"
               /\ UNCHANGED raised
    /\ UNCHANGED extVars
    /\ UNCHANGED << mode, vpVars, loopVars, calls, events, obs >>

-----------------------------------------------------------------------------
(* SDLCOrchestrator.move_to_stage *)

\* the stage names move_to_stage tells apart, "plan" being process_task, and
\* one it does not know
Stages == { "build", "review", "test", "qa", "deploy" }

StageStatus(stage) ==
    CASE stage = "build"  -> "BUILDING"
      [] stage = "review" -> "REVIEWING"
      [] stage = "test"   -> "TESTING"
      [] stage = "qa"     -> "QA_CHECKING"

\* where move_to_stage is suspended: at the await of the stage's collaborator
StagePc(stage) ==
    CASE stage = "build"  -> "move_build"
      [] stage = "review" -> "move_review"
      [] stage = "test"   -> "move_test"
      [] stage = "qa"     -> "move_qa"

\* the ValueError a stage's precondition raises, or NoExc
StageError(t, stage) ==
    CASE stage = "build" /\ t.spec = "" ->
           << "No spec available - run planning first" >>
      [] stage = "review" /\ t.files_modified = << >> /\ t.files_created = << >> ->
           << "No files to review - run build first" >>
      [] OTHER -> NoExc

\* move_to_stage up to its await: the precondition, then the status of the stage
MS_Start ==
    /\ CanCall
    /\ mode' = "move_to_stage"
    /\ obs' = NewCall(obs)
    /\ \E stage \in Stages :
          IF stage \notin { "build", "review", "test", "qa" }
          THEN /\ pc' = "done"
               /\ raised' = NoExc
               /\ UNCHANGED << task, visited >>
          ELSE IF StageError(task, stage) # NoExc
          THEN /\ pc' = "done"
               /\ raised' = StageError(task, stage)
               /\ UNCHANGED << task, visited >>
          ELSE /\ task' = SetStatus(task, StageStatus(stage))
               /\ visited' = Append(visited, StageStatus(stage))
               /\ pc' = StagePc(stage)
               /\ raised' = NoExc
    /\ UNCHANGED extVars
    /\ UNCHANGED << vpVars, loopVars, calls, events >>

\* the stage's collaborator returns or raises; move_to_stage has no handler,
\* so an exception leaves the status of the stage in place
MS_Return ==
    /\ pc \in { "move_build", "move_review", "move_test", "move_qa" }
    /\ pc' = "done"
    /\ \E o \in BuildOutcomes :
          CASE o.kind = "raise" ->
                 /\ raised' = o.msg
                 /\ UNCHANGED task
            [] o.kind = "result" /\ pc = "move_build" ->
                 /\ task' = [task EXCEPT !.files_modified = o.files_modified,
                                          !.files_created = o.files_created]
                 /\ UNCHANGED raised
            [] OTHER ->
                 UNCHANGED << task, raised >>
    /\ UNCHANGED extVars
    /\ UNCHANGED << mode, vpVars, loopVars, calls, events, visited, obs >>

-----------------------------------------------------------------------------
(* Calls with a task id that is not in self.tasks *)

\* an id that is not a key of self.tasks
UnknownId == "nope"

\* f"Task {task_id} not found"
NotFound(id) == << "Task ", id, " not found" >>

RejectUnknown_after_planning(op, id) ==
    /\ pc' = "done"
    /\ task' = SetStatus(task, "PLANNING")
    /\ visited' = Append(visited, "PLANNING")
    /\ raised' = NotFound(id)
    /\ obs' = [NewCall(obs) EXCEPT !.rejected = op]

\* task = self.tasks.get(task_id) ; if not task: process_task and move_to_stage
\* raise ValueError, stream_process yields one error chunk and returns
RejectUnknown(op, id) ==
    /\ pc' = "done"
    /\ UNCHANGED << task, visited >>
    /\ IF op = "stream_process"
       THEN /\ raised' = NoExc
            /\ obs' = [NewCall(obs) EXCEPT
                         !.rejected = op,
                         !.yielded = << [type |-> "error", message |-> NotFound(id)] >>]
       ELSE /\ raised' = NotFound(id)
            /\ obs' = [NewCall(obs) EXCEPT !.rejected = op]

\* process_task, stream_process or move_to_stage called with an unknown id
OP_UnknownId ==
    /\ CanCall
    /\ \E op \in { "process_task", "stream_process", "move_to_stage" } :
          /\ mode' = op
          /\ RejectUnknown(op, UnknownId)
    /\ UNCHANGED extVars
    /\ UNCHANGED << vpVars, loopVars, calls, events >>

-----------------------------------------------------------------------------
(* SDLCOrchestrator.process_tasks_parallel *)

MaxIds == 3           \* longest task_ids list process_tasks_parallel is given

\* the ids of self.tasks
RegistryIds == { "t1", "t2" }

TaskIdLists == SeqsUpTo(RegistryIds \cup { UnknownId }, MaxIds)

\* the exception a status listener raises out of _emit_status
ListenerBoom == << "listener" >>

\* how a process_task run ends: it returns its task SHIPPED, PARTIAL or FAILED,
\* or the listener raises inside the except clause, after status and error
\* were set, and the exception leaves the run
RunOutcomes ==
    { [kind |-> "returned", status |-> "SHIPPED", error |-> None, exc |-> NoExc],
      [kind |-> "returned", status |-> "PARTIAL", error |-> QaError(<< F1 >>), exc |-> NoExc],
      [kind |-> "returned", status |-> "FAILED", error |-> Boom, exc |-> NoExc],
      [kind |-> "raised", status |-> "FAILED", error |-> Boom, exc |-> ListenerBoom] }

\* [self.process_task(task_id) for task_id in task_ids if task_id in self.tasks]
RECURSIVE TasksToProcess(_)
TasksToProcess(ids) ==
    IF ids = << >> THEN << >>
    ELSE IF Head(ids) \in RegistryIds
         THEN << Head(ids) >> \o TasksToProcess(Tail(ids))
         ELSE TasksToProcess(Tail(ids))

NoParallel ==
    [ pc        |-> "unused",
      task_ids  |-> << >>,     \* the argument
      runs      |-> << >>,     \* tasks_to_process: the id each run was created for
      results   |-> << >>,     \* gather's list, one entry per run
      tasks     |-> [id \in RegistryIds |-> [status |-> "TODO", error |-> None]],
      processed |-> << >>,     \* processed_tasks, by id
      writes    |-> { } ]      \* (id of the run, id of the task) for every write of
                               \* status or error made on behalf of that run

\* process_tasks_parallel up to its await: the runs are created and gathered
PP_Start ==
    /\ pp.pc = "idle"
    /\ \E ids \in TaskIdLists :
          pp' = [pp EXCEPT !.pc = "gather",
                           !.task_ids = ids,
                           !.runs = TasksToProcess(ids),
                           !.results = [i \in 1..Len(TasksToProcess(ids)) |-> Pending]]
    /\ UNCHANGED << coreVars, feat >>

\* a run starts: process_task up to its first await sets PLANNING on its task
PP_RunStart ==
    /\ pp.pc = "gather"
    /\ \E i \in 1..Len(pp.runs) :
          /\ pp.results[i] = Pending
          /\ pp' = [pp EXCEPT !.results[i] = [kind |-> "running"],
                              !.tasks[pp.runs[i]].status = "PLANNING",
                              !.writes = @ \cup { << pp.runs[i], pp.runs[i] >> }]
    /\ UNCHANGED << coreVars, feat >>

\* a run ends, having written the final status and error of its task
PP_RunDone ==
    /\ pp.pc = "gather"
    /\ \E i \in 1..Len(pp.runs), o \in RunOutcomes :
          /\ pp.results[i] = [kind |-> "running"]
          /\ pp' = [pp EXCEPT !.results[i] = o,
                              !.tasks[pp.runs[i]] = [status |-> o.status, error |-> o.error],
                              !.writes = @ \cup { << pp.runs[i], pp.runs[i] >> }]
    /\ UNCHANGED << coreVars, feat >>

\* for i, result in enumerate(results): the i-th result is the result of the
\* i-th run, and the task looked up is the one of task_ids[i]
RECURSIVE ProcessResults(_, _)
ProcessResults(f, i) ==
    IF i > Len(f.results) THEN f
    ELSE IF f.results[i].kind = "raised"
         THEN IF f.task_ids[i] \in RegistryIds
              THEN ProcessResults(
                     [f EXCEPT !.tasks[f.task_ids[i]] =
                                   [status |-> "FAILED", error |-> f.results[i].exc],
                               !.processed = Append(@, f.task_ids[i]),
                               !.writes = @ \cup { << f.runs[i], f.task_ids[i] >> }],
                     i + 1)
              ELSE ProcessResults(f, i + 1)
         ELSE ProcessResults([f EXCEPT !.processed = Append(@, f.runs[i])], i + 1)

\* gather returns when every run has ended; the results are processed
PP_Join ==
    /\ pp.pc = "gather"
    /\ \A i \in 1..Len(pp.runs) : pp.results[i].kind \in { "returned", "raised" }
    /\ pp' = [ProcessResults(pp, 1) EXCEPT !.pc = "returned"]
    /\ UNCHANGED << coreVars, feat >>

-----------------------------------------------------------------------------
(* FeatureOrchestrator.process_feature and its fix loops *)

\* the spec argument: "" stands for None and for the empty string (both falsy)
SpecArgs == { "", "G" }

\* PhaseResult(phase, success, error=...); files_affected is left out
PhaseResult(ph, ok, err) ==
    [phase |-> ph, success |-> ok, fix_loops |-> 0, issues_found |-> 0,
     issues_fixed |-> 0, error |-> err]

\* FeatureResult(feature_name, status=IN_PROGRESS); test_files, assumptions and
\* duration_ms are left out
NewFeatureResult ==
    [status |-> "in_progress", phases |-> << >>, files_created |-> << >>,
     files_modified |-> << >>, remaining_issues |-> << >>, error |-> None]

NoFeature ==
    [ pc                   |-> "unused",
      spec                 |-> "",        \* the arguments
      skip_planning        |-> FALSE,
      skip_tests           |-> FALSE,
      current_spec         |-> "",        \* the locals of process_feature
      files_created        |-> << >>,
      files_modified       |-> << >>,
      phase                |-> "none",    \* the phase being run
      phase_result         |-> PhaseResult("none", TRUE, None),
      current_findings     |-> << >>,     \* the locals of the phase's fix loop
      loop_count           |-> 0,
      previous_finding_ids |-> << >>,
      result               |-> NewFeatureResult,
      planner_calls        |-> 0,         \* observers: calls of planner.plan,
      build_spec           |-> "",        \* the spec builder.build was given,
      built                |-> << >> ]    \* what it reported (created, modified)

\* except Exception as e: result.status = FAILED ; result.error = str(e)
FeatureFail(f, msg) ==
    [f EXCEPT !.pc = "returned", !.result.status = "failed", !.result.error = msg,
              !.current_findings = << >>, !.loop_count = 0,
              !.previous_finding_ids = << >>]

\* a call of a listener registered with on_phase_start, on_phase_complete or
\* on_fix_loop: it returns, or it raises inside the try body of process_feature
ListenerOutcomes == { "returns", "raises" }

\* _emit_phase_start, _emit_phase_complete, _emit_fix_loop reached in state
\* before: the run goes on to after, or the listener's exception is caught
Emit(before, after, l) ==
    IF l = "raises" THEN FeatureFail(before, ListenerBoom) ELSE after

\* FINALIZE: the file lists are copied into the result and the status is set
Finalize(f) ==
    [f EXCEPT !.pc = "returned",
              !.result.files_created = f.files_created,
              !.result.files_modified = f.files_modified,
              !.result.status = IF f.result.remaining_issues # << >>
                                THEN "partial" ELSE "success"]

\* ui_files = [f for f in files_created if self._is_ui_file(f)]
RECURSIVE UiFiles(_)
UiFiles(files) ==
    IF files = << >> THEN << >>
    ELSE IF IsUiFile(Head(files))
         THEN << Head(files) >> \o UiFiles(Tail(files))
         ELSE UiFiles(Tail(files))

\* the phase that follows ph: ui_review only with UI files among the created
\* ones, testing unless skip_tests, then qa, then FINALIZE
FollowingPhase(f, ph) ==
    CASE ph = "code_review" /\ UiFiles(f.files_created) # << >> -> "ui_review"
      [] ph \in { "code_review", "ui_review" } /\ ~f.skip_tests -> "testing"
      [] ph \in { "code_review", "ui_review", "testing" }        -> "qa"
      [] OTHER                                                   -> "finalize"

\* self._emit_phase_start(ph), then the phase's check is awaited
StartPhase(f, ph) ==
    IF ph = "finalize" THEN Finalize(f)
    ELSE [f EXCEPT !.pc = "await_check", !.phase = ph]

\* the fix loop returned left (or was not run): remaining_issues.extend(left),
\* result.phases.append(phase_result), _emit_phase_complete(phase_result), and
\* on to the following phase
FinishPhase(f, left, l) ==
    LET g == [f EXCEPT !.result.remaining_issues = @ \o left,
                       !.result.phases = Append(@, f.phase_result),
                       !.current_findings = << >>, !.loop_count = 0,
                       !.previous_finding_ids = << >>,
                       !.phase_result = PhaseResult("none", TRUE, None)]
    IN  Emit(g, StartPhase(g, FollowingPhase(f, f.phase)), l)

\* what reviewer.review, ui_reviewer.review, tester.create_and_run_tests and
\* qa.check return to process_feature
CheckOutcomes ==
    { [kind |-> "result", fix_required |-> FALSE, findings |-> << >>],
      [kind |-> "result", fix_required |-> FALSE, findings |-> << F1 >>],
      [kind |-> "result", fix_required |-> TRUE,  findings |-> << F1 >>],
      Raise(Boom) }

\* what validate_fix returns to a fix loop of process_feature
RevalidateOutcomes ==
    { [kind |-> "result", fix_required |-> FALSE, findings |-> << >>],
      [kind |-> "result", fix_required |-> TRUE,  findings |-> << F1 >>],
      [kind |-> "result", fix_required |-> TRUE,  findings |-> << >>],
      Raise(Boom) }

\* process_feature up to its first await
PF_Start ==
    /\ feat.pc = "idle"
    /\ \E sp \in SpecArgs, sk_plan \in BOOLEAN, sk_tests \in BOOLEAN,
          l \in ListenerOutcomes :
          LET f == [feat EXCEPT !.spec = sp, !.skip_planning = sk_plan,
                                !.skip_tests = sk_tests, !.current_spec = sp,
                                !.result = NewFeatureResult]
          IN  IF ~sk_plan \/ sp = ""
              THEN feat' = Emit(f, [f EXCEPT !.pc = "await_plan",
                                             !.planner_calls = @ + 1], l)
              ELSE feat' = Emit(f, [f EXCEPT !.pc = "await_build",
                                             !.build_spec = sp], l)
    /\ UNCHANGED << coreVars, pp >>

\* planner.plan returns or raises
PF_PlanReturn ==
    /\ feat.pc = "await_plan"
    /\ \E o \in PlanOutcomes, l \in ListenerOutcomes :
          feat' =
            CASE o.kind = "raise" -> FeatureFail(feat, o.msg)
              [] o.kind = "result" /\ ~o.success ->
                   FeatureFail(
                     [feat EXCEPT !.result.phases =
                                     Append(@, PhaseResult("planning", FALSE, o.error))],
                     << "Planning failed: " >> \o o.error)
              [] OTHER ->
                   LET g == [feat EXCEPT !.current_spec = o.spec,
                                         !.result.phases =
                                             Append(@, PhaseResult("planning", TRUE, None))]
                   IN  Emit(g, [g EXCEPT !.pc = "await_build",
                                         !.build_spec = o.spec], l)
    /\ UNCHANGED << coreVars, pp >>

\* builder.build returns or raises; on success the code review is awaited
PF_BuildReturn ==
    /\ feat.pc = "await_build"
    /\ \E o \in BuildOutcomes, l \in ListenerOutcomes :
          feat' =
            CASE o.kind = "raise" -> FeatureFail(feat, o.msg)
              [] o.kind = "result" /\ ~o.success ->
                   FeatureFail(
                     [feat EXCEPT !.result.phases =
                                     Append(@, PhaseResult("building", FALSE, o.error))],
                     << "Building failed: " >> \o o.error)
              [] OTHER ->
                   LET g == [feat EXCEPT !.files_created = o.files_created,
                                         !.files_modified = o.files_modified,
                                         !.built = << o.files_created, o.files_modified >>,
                                         !.result.phases =
                                             Append(@, PhaseResult("building", TRUE, None))]
                   IN  Emit(g, StartPhase(g, "code_review"), l)
    /\ UNCHANGED << coreVars, pp >>

\* the check of the phase returns or raises; with fix_required and findings the
\* phase's fix loop is entered
PF_CheckReturn ==
    /\ feat.pc = "await_check"
    /\ \E o \in CheckOutcomes, l \in ListenerOutcomes :
          feat' =
            IF o.kind = "raise" THEN FeatureFail(feat, o.msg)
            ELSE LET f == [feat EXCEPT !.phase_result =
                                          PhaseResult(feat.phase, TRUE, None)]
                 IN  IF o.fix_required /\ o.findings # << >>
                     THEN [f EXCEPT !.pc = "loop_top",
                                    !.phase_result.issues_found = Len(o.findings),
                                    !.current_findings = o.findings,
                                    !.loop_count = 0,
                                    !.previous_finding_ids = << >>]
                     ELSE FinishPhase(f, << >>, l)
    /\ UNCHANGED << coreVars, pp >>

\* while current_findings: the deadlock test, then the fix build is awaited
PF_LoopTop ==
    /\ feat.pc = "loop_top"
    /\ \E l \in ListenerOutcomes :
         feat' =
           IF feat.current_findings = << >> THEN FinishPhase(feat, << >>, l)
           ELSE IF IdenticalCount(feat.previous_finding_ids, IdSet(feat.current_findings))
                     >= MAX_IDENTICAL_LOOPS
           THEN FinishPhase(feat, feat.current_findings, l)
           ELSE Emit(feat,
                     [feat EXCEPT !.pc = "await_fix",
                                  !.loop_count = @ + 1,
                                  !.previous_finding_ids =
                                      Append(@, IdSet(feat.current_findings)),
                                  !.phase_result.fix_loops = feat.loop_count + 1],
                     l)
    /\ UNCHANGED << coreVars, pp >>

\* await self.builder.build(fix_spec): the result is not looked at
PF_FixReturn ==
    /\ feat.pc = "await_fix"
    /\ \E o \in { [kind |-> "done"], Raise(Boom) } :
          feat' = IF o.kind = "raise" THEN FeatureFail(feat, o.msg)
                  ELSE [feat EXCEPT !.pc = "await_validate"]
    /\ UNCHANGED << coreVars, pp >>

\* validate_fix returns or raises
PF_ValidateReturn ==
    /\ feat.pc = "await_validate"
    /\ \E o \in RevalidateOutcomes, l \in ListenerOutcomes :
          feat' =
            IF o.kind = "raise" THEN FeatureFail(feat, o.msg)
            ELSE IF ~o.fix_required
            THEN FinishPhase(
                   [feat EXCEPT !.phase_result.issues_fixed =
                                    feat.phase_result.issues_found],
                   << >>, l)
            ELSE [feat EXCEPT !.pc = "loop_top",
                              !.phase_result.issues_fixed =
                                  @ + Len(feat.current_findings) - Len(o.findings),
                              !.current_findings = o.findings]
    /\ UNCHANGED << coreVars, pp >>

-----------------------------------------------------------------------------
(* Initial states and specifications *)

\* Task(id, title, description) as create_task builds it
NewTask ==
    [ status |-> "TODO", spec |-> "", files_modified |-> << >>, files_created |-> << >>,
      fix_loop_stats |-> << >>, error |-> None,
      updated_at |-> 1 ]   \* create_task ends with _emit_status(task)

\* MergedResult()
NewMergedResult ==
    [ findings |-> << >>, agent_count |-> 0, fix_required |-> FALSE,
      success |-> TRUE, error |-> None ]

NewObs ==
    [ cleared         |-> FALSE,    \* the last validate result said fix_required = false
      instance_raised |-> FALSE,    \* an instance of a parallel validation raised
      all_raised      |-> FALSE,    \* every instance of a parallel validation raised
      all_failed      |-> FALSE,    \* every instance of the last parallel validation
                                    \* returned a failure result
      loop_failed     |-> FALSE,    \* a fix loop returned FAILED to process_task
      built           |-> << >>,    \* the files the Build phase reported (created, modified)
      qa_exit         |-> << >>,    \* (FixLoopResult, number of remaining findings) the
                                    \* QA fix loop returned to process_task
      session         |-> "single", \* one call on the task, or a session of several
      ncalls          |-> 0,        \* calls of the orchestrator made on the task
      finished        |-> << >>,    \* the validator's instances in the order they finished
      min_agreement   |-> 0,        \* the min_agreement validate_with_consensus was given
      debug           |-> << >>,    \* (fix_required, findings) the Debugger just returned
      validator_failed |-> FALSE,   \* the last validate result had success = false
      rejected        |-> "none",   \* the operation last called with an unknown task id
      yielded         |-> << >> ]   \* the chunks that call of stream_process yielded

\* validate_parallel on a fresh ParallelValidator
InitValidator ==
    /\ mode = "validator"
    /\ pc = "unused"
    /\ vp_pc = "idle"
    /\ results = << >>
    /\ merged = NewMergedResult
    /\ task = NewTask
    /\ phase = "none"
    /\ initial_findings = << >>
    /\ current_findings = << >>
    /\ loop_count = 0
    /\ issues_fixed_total = 0
    /\ previous_finding_ids = << >>
    /\ loop_result = NoResult
    /\ remaining = << >>
    /\ raised = NoExc
    /\ calls = NoCalls
    /\ events = 0
    /\ visited = << "TODO" >>
    /\ obs = NewObs
    /\ pp = NoParallel
    /\ feat = NoFeature

\* _run_fix_loop called with any findings list, the empty one included
InitLoop ==
    /\ mode = "loop"
    /\ pc = "fl_top"
    /\ vp_pc = "unused"
    /\ results = << >>
    /\ merged = NewMergedResult
    /\ task = NewTask
    /\ phase = "code_review"
    /\ initial_findings \in FindingLists
    /\ current_findings = initial_findings
    /\ loop_count = 0
    /\ issues_fixed_total = 0
    /\ previous_finding_ids = << >>
    /\ loop_result = NoResult
    /\ remaining = << >>
    /\ raised = NoExc
    /\ calls = NoCalls
    /\ events = 0
    /\ visited = << "TODO" >>
    /\ obs = NewObs
    /\ pp = NoParallel
    /\ feat = NoFeature

\* a task as create_task left it
InitTask ==
    /\ mode = "task"
    /\ pc = "idle"
    /\ vp_pc = "unused"
    /\ results = << >>
    /\ merged = NewMergedResult
    /\ task = NewTask
    /\ phase = "none"
    /\ initial_findings = << >>
    /\ current_findings = << >>
    /\ loop_count = 0
    /\ issues_fixed_total = 0
    /\ previous_finding_ids = << >>
    /\ loop_result = NoResult
    /\ remaining = << >>
    /\ raised = NoExc
    /\ calls = NoCalls
    /\ events = 0
    /\ visited = << "TODO" >>
    /\ obs = NewObs
    /\ pp = NoParallel
    /\ feat = NoFeature

\* a task as create_task left it, at the start of a session of several calls
InitOps ==
    /\ mode = "task"
    /\ pc = "idle"
    /\ vp_pc = "unused"
    /\ results = << >>
    /\ merged = NewMergedResult
    /\ task = NewTask
    /\ phase = "none"
    /\ initial_findings = << >>
    /\ current_findings = << >>
    /\ loop_count = 0
    /\ issues_fixed_total = 0
    /\ previous_finding_ids = << >>
    /\ loop_result = NoResult
    /\ remaining = << >>
    /\ raised = NoExc
    /\ calls = NoCalls
    /\ events = 0
    /\ visited = << "TODO" >>
    /\ obs = [NewObs EXCEPT !.session = "multi"]
    /\ pp = NoParallel
    /\ feat = NoFeature

\* a registry of two tasks as create_task left them
InitParallel ==
    /\ mode = "parallel"
    /\ pc = "unused"
    /\ vp_pc = "unused"
    /\ results = << >>
    /\ merged = NewMergedResult
    /\ task = NewTask
    /\ phase = "none"
    /\ initial_findings = << >>
    /\ current_findings = << >>
    /\ loop_count = 0
    /\ issues_fixed_total = 0
    /\ previous_finding_ids = << >>
    /\ loop_result = NoResult
    /\ remaining = << >>
    /\ raised = NoExc
    /\ calls = NoCalls
    /\ events = 0
    /\ visited = << "TODO" >>
    /\ obs = NewObs
    /\ pp = [NoParallel EXCEPT !.pc = "idle"]
    /\ feat = NoFeature

\* a fresh FeatureOrchestrator
InitFeature ==
    /\ mode = "feature"
    /\ pc = "unused"
    /\ vp_pc = "unused"
    /\ results = << >>
    /\ merged = NewMergedResult
    /\ task = NewTask
    /\ phase = "none"
    /\ initial_findings = << >>
    /\ current_findings = << >>
    /\ loop_count = 0
    /\ issues_fixed_total = 0
    /\ previous_finding_ids = << >>
    /\ loop_result = NoResult
    /\ remaining = << >>
    /\ raised = NoExc
    /\ calls = NoCalls
    /\ events = 0
    /\ visited = << "TODO" >>
    /\ obs = NewObs
    /\ pp = NoParallel
    /\ feat = [NoFeature EXCEPT !.pc = "idle"]

NextFeature ==
    \/ PF_Start \/ PF_PlanReturn \/ PF_BuildReturn \/ PF_CheckReturn
    \/ PF_LoopTop \/ PF_FixReturn \/ PF_ValidateReturn

NextParallel == PP_Start \/ PP_RunStart \/ PP_RunDone \/ PP_Join

NextValidator == VP_Start \/ VP_InstanceDone \/ VP_Join \/ VC_Start \/ VC_Join

NextLoop == FL_Top \/ FL_FixReturn \/ FL_DebugReturn \/ FL_ValidateReturn

NextTask ==
    \/ PT_Start \/ PT_PlanReturn \/ PT_BuildReturn \/ PT_ReviewReturn \/ PT_UiReturn
    \/ PT_TestReturn \/ PT_QaReturn \/ PT_FixLoopReturned \/ PT_Except
    \/ ST_Start \/ ST_PlanDone \/ ST_BuildDone \/ ST_ReviewDone
    \/ NextLoop

NextOps ==
    \/ PT_Start \/ PT_PlanReturn \/ PT_BuildReturn \/ PT_ReviewReturn \/ PT_UiReturn
    \/ PT_TestReturn \/ PT_QaReturn
    \/ ST_Start \/ ST_PlanDone \/ ST_BuildDone \/ ST_ReviewDone
    \/ MS_Start \/ MS_Return \/ OP_UnknownId

Init == InitValidator \/ InitLoop \/ InitTask \/ InitOps \/ InitParallel \/ InitFeature

Next == NextValidator \/ NextTask \/ MS_Start \/ MS_Return \/ OP_UnknownId \/ NextParallel
           \/ NextFeature

SpecValidator == InitValidator /\ [][NextValidator]_vars

SpecLoop == InitLoop /\ [][NextLoop]_vars

SpecTask == InitTask /\ [][NextTask]_vars

SpecOps == InitOps /\ [][NextOps]_vars

SpecParallel == InitParallel /\ [][NextParallel]_vars

SpecFeature == InitFeature /\ [][NextFeature]_vars

Spec == Init /\ [][Next]_vars

-----------------------------------------------------------------------------
(* Claims about ParallelValidator, checked under SpecValidator *)

\* the dedup key of the specification: the pair (location, problem[0:50])
PairOf(f) == << f.location, Prefix(f.problem, 50) >>

BothReturned ==
    /\ vp_pc = "returned"
    /\ \A i \in 1..AgentCount : results[i].kind = "result"

\* C3: for the findings lists A, B of instance 0 and 1, the merge holds exactly
\* one finding per distinct (location, problem[:50]) pair of A or B, and for a
\* pair that A has, the finding kept is one of A.
C3_OneFindingPerPair ==
    BothReturned =>
        LET A     == results[1].findings
            B     == results[2].findings
            out   == merged.findings
            pairs == { PairOf(f) : f \in Range(A) \cup Range(B) }
        IN  /\ Len(out) = Cardinality(pairs)
            /\ \A p \in pairs :
                  Cardinality({ i \in 1..Len(out) : PairOf(out[i]) = p }) = 1
            /\ \A i \in 1..Len(out) :
                  (\E a \in Range(A) : PairOf(a) = PairOf(out[i])) => out[i] \in Range(A)

\* C4: agent_count is the number of instances that did not raise, success says
\* that there is one, and every merged finding comes from such an instance.
C4_PartialFailureTolerated ==
    vp_pc = "returned" =>
        LET raisers == { i \in 1..AgentCount : results[i].kind = "exception" }
        IN  /\ merged.agent_count = AgentCount - Cardinality(raisers)
            /\ merged.success = (merged.agent_count >= 1)
            /\ \A k \in 1..Len(merged.findings) :
                  \E i \in (1..AgentCount) \ raisers :
                      merged.findings[k] \in Range(results[i].findings)

C4_Witness ==
    /\ vp_pc = "returned"
    /\ results[1].kind = "exception"
    /\ results[2].kind = "result"
    /\ Len(results[2].findings) = 2
    /\ merged.success
    /\ merged.agent_count = 1
    /\ merged.findings # << >>

\* the findings of the instances that returned, in submission order
RECURSIVE Submitted(_, _)
Submitted(rs, i) ==
    IF i > Len(rs) THEN << >>
    ELSE (IF rs[i].kind = "result" THEN rs[i].findings ELSE << >>) \o Submitted(rs, i + 1)

\* the elements of s whose key no earlier element of s has, in the order of s
RECURSIVE FirstOccurrences(_, _)
FirstOccurrences(s, i) ==
    IF i > Len(s) THEN << >>
    ELSE (IF \E j \in 1..(i - 1) : DedupKey(s[j]) = DedupKey(s[i])
          THEN << >> ELSE << s[i] >>) \o FirstOccurrences(s, i + 1)

\* C17: the merged findings are ordered by submission index, the kept findings
\* of instance 0 in the order it returned them, then the new ones of instance
\* 1, whatever the order in which the instances finished.
C17_MergeOrderBySubmissionIndex ==
    vp_pc = "returned" =>
        merged.findings = FirstOccurrences(Submitted(results, 1), 1)

C17_Witness ==
    /\ vp_pc = "returned"
    /\ obs.finished = << 2, 1 >>
    /\ results[1].kind = "result"
    /\ results[2].kind = "result"
    /\ results[1].findings = << M3, M1 >>
    /\ results[2].findings = << M6, M5 >>
    /\ merged.findings = << M3, M1, M6 >>

\* an instance that finishes leaves the outcome of every other instance as it is
NoInstanceCancelled ==
    \A i \in DOMAIN results \cap DOMAIN results' :
        /\ results[i].kind # "pending" => results'[i] = results[i]
        /\ (results[i].kind = "pending" /\ results'[i].kind # "pending") =>
              \A j \in (DOMAIN results \cap DOMAIN results') \ { i } : results'[j] = results[j]

\* C18: validate_parallel has not returned and the merge has not run while an
\* instance is still running, and an instance that finishes or raises early
\* never cancels another instance.
C18_JoinWaitsForEveryInstance ==
    /\ [](mode = "validator" =>
            /\ (vp_pc = "returned" \/ merged # NewMergedResult) =>
                  (Len(results) = AgentCount /\ AllDone(results))
            /\ Len(obs.finished) = Cardinality({ i \in DOMAIN results :
                                                   results[i].kind # "pending" }))
    /\ [][NoInstanceCancelled]_vars

C18_Witness ==
    /\ vp_pc = "returned"
    /\ obs.finished = << 1, 2 >>
    /\ results[1].kind = "exception"
    /\ results[2].kind = "result"
    /\ results[2].findings # << >>
    /\ merged.findings = results[2].findings

UniqueIds(fs) == \A i, j \in 1..Len(fs) : fs[i].id = fs[j].id => i = j

\* C19: when each instance's findings list has unique ids, no two findings of
\* the MergedResult have the same id.
C19_MergedIdsUnique ==
    (vp_pc = "returned" /\ \A i \in 1..AgentCount :
                              results[i].kind = "result" => UniqueIds(results[i].findings)) =>
        UniqueIds(merged.findings)

\* the instances that returned a finding with the dedup key k
Reporters(k) ==
    { i \in 1..AgentCount :
        /\ results[i].kind = "result"
        /\ \E f \in Range(results[i].findings) : DedupKey(f) = k }

\* C20: validate_with_consensus keeps a finding if and only if its dedup key
\* occurs in the results of at least min_agreement distinct instances: the keys
\* kept are those with enough reporters, each kept once.
C20_ConsensusCountsInstances ==
    vp_pc = "returned_consensus" =>
        LET out  == merged.findings
            keys == { DedupKey(f) : f \in Range(Submitted(results, 1)) }
        IN  /\ { DedupKey(f) : f \in Range(out) } =
                  { k \in keys : Cardinality(Reporters(k)) >= obs.min_agreement }
            /\ \A i, j \in 1..Len(out) : DedupKey(out[i]) = DedupKey(out[j]) => i = j

-----------------------------------------------------------------------------
(* Claims about _run_fix_loop, checked under SpecLoop *)

\* every fix succeeded and every validate result so far asked for a fix of
\* the id set the loop was called with
SameSetRun ==
    /\ initial_findings # << >>
    /\ calls.debug = 0
    /\ ~obs.cleared
    /\ raised = NoExc
    /\ \A i \in 1..Len(previous_finding_ids) :
          previous_finding_ids[i] = IdSet(initial_findings)
    /\ IdSet(current_findings) = IdSet(initial_findings)

\* C1: with fixes that succeed and a validate that always returns the id set of
\* the input, the loop ends at iteration 3 with MAX_LOOPS_REACHED and the input
\* findings, and there is no 4th iteration.
C1_DeadlockAtIteration3 ==
    SameSetRun =>
        /\ loop_count <= 3
        /\ pc = "fl_returned" =>
              /\ loop_result = "MAX_LOOPS_REACHED"
              /\ loop_count = 3
              /\ IdSet(remaining) = IdSet(initial_findings)

StrictlyShrinking(prev) ==
    \A i \in 1..(Len(prev) - 1) :
        prev[i + 1] \subseteq prev[i] /\ prev[i + 1] # prev[i]

\* C2: with fixes that succeed and validate results whose id sets strictly
\* shrink until validate reports fix_required = false, the loop has returned
\* (FIXED, []) after as many iterations as non-empty finding sets were seen.
C2_ConvergesFixed ==
    (calls.debug = 0 /\ obs.cleared /\ StrictlyShrinking(previous_finding_ids)) =>
        /\ pc = "fl_returned"
        /\ loop_result = "FIXED"
        /\ remaining = << >>
        /\ loop_count = Cardinality(Range(previous_finding_ids))

C2_Witness ==
    /\ calls.debug = 0
    /\ obs.cleared
    /\ StrictlyShrinking(previous_finding_ids)
    /\ Len(previous_finding_ids) = 2
    /\ loop_count = 2
    /\ loop_result = "FIXED"

Last3Same(prev, ids) ==
    /\ Len(prev) >= 3
    /\ \A k \in 0..2 : prev[Len(prev) - k] = ids

Front(s) == SubSeq(s, 1, Len(s) - 1)

\* C6: MAX_LOOPS_REACHED is returned exactly when, at the start of an iteration,
\* the id set of the current findings equals the three most recently stored
\* loop-start id sets; then the current findings are returned and no fix is
\* invoked in that iteration.
C6_DeadlockIffThreeIdentical ==
    /\ (pc = "fl_returned" /\ loop_result = "MAX_LOOPS_REACHED") =>
          /\ Last3Same(previous_finding_ids, IdSet(current_findings))
          /\ remaining = current_findings
          /\ calls.fix = Len(previous_finding_ids)
    /\ pc \in { "await_fix", "await_debug", "await_validate" } =>
          /\ previous_finding_ids # << >>
          /\ ~Last3Same(Front(previous_finding_ids), IdSet(current_findings))

C6_Witness ==
    /\ pc = "fl_returned"
    /\ loop_result = "MAX_LOOPS_REACHED"
    /\ Len(previous_finding_ids) = 3
    /\ Len(current_findings) = 2
    /\ current_findings # initial_findings
    /\ calls.fix = 3

\* C7: called with no findings, _run_fix_loop returns (FIXED, []) at once: no
\* collaborator is invoked, no event is emitted, no statistics are appended.
C7_EmptyReturnsFixedAtOnce ==
    (mode = "loop" /\ initial_findings = << >>) =>
        /\ calls = NoCalls
        /\ events = 0
        /\ task.fix_loop_stats = << >>
        /\ pc \in { "fl_top", "fl_returned" }
        /\ pc = "fl_returned" =>
              (loop_result = "FIXED" /\ remaining = << >> /\ loop_count = 0)

C7_Witness ==
    /\ mode = "loop"
    /\ initial_findings = << >>
    /\ pc = "fl_returned"
    /\ loop_result = "FIXED"

\* the loop has given up or returned: nothing of it is awaited any more
LoopOver == pc \in { "raised", "fl_returned" }

\* C14: whenever the fix fails, by raising or by returning a failure result,
\* the Debugger is invoked before the loop gives up: when the loop is over,
\* every fix call was followed by validate (it succeeded) or by the Debugger.
C14_FixFailureReachesDebugger ==
    (mode = "loop" /\ LoopOver) => calls.fix = calls.validate + calls.debug

\* C15: within one run the Debugger is invoked at most once, so a fix failure
\* after a re-diagnosis ends the loop.
C15_DebuggerAtMostOncePerRun ==
    mode = "loop" => calls.debug <= 1

-----------------------------------------------------------------------------
(* Claims about process_task and stream_process, checked under SpecTask *)

Visited(s) == s \in Range(visited)

FullOrder == << "TODO", "PLANNING", "BUILDING", "REVIEWING", "UI_REVIEWING",
                "TESTING", "QA_CHECKING", "SHIPPED" >>

OrderWithoutUi == << "TODO", "PLANNING", "BUILDING", "REVIEWING",
                     "TESTING", "QA_CHECKING", "SHIPPED" >>

StreamOrder == << "TODO", "PLANNING", "BUILDING", "REVIEWING", "SHIPPED" >>

C9_QaDeadlockEndsPartial ==
    (mode = "process_task" /\ obs.qa_exit # << >>
                           /\ obs.qa_exit[1] = "MAX_LOOPS_REACHED") =>
        /\ obs.qa_exit[2] > 0
        /\ pc = "done"
        /\ task.status = "PARTIAL"
        /\ visited[Len(visited)] = "PARTIAL"
        /\ ~Visited("FAILED") /\ ~Visited("SHIPPED")
        /\ task.error = << "QA: ", ToString(obs.qa_exit[2]),
                           " issues remaining after max loops" >>

C9_Witness ==
    /\ mode = "process_task"
    /\ obs.qa_exit = << "MAX_LOOPS_REACHED", 2 >>
    /\ task.status = "PARTIAL"
    /\ task.error = << "QA: ", "2", " issues remaining after max loops" >>

BuiltUiFile ==
    /\ obs.built # << >>
    /\ \E fs \in Range(obs.built) : \E f \in Range(fs) : IsUiFile(f)

\* C10: process_task enters UI_REVIEWING if and only if the Build phase reported
\* a file that matches the UI-file predicate; otherwise it goes from REVIEWING
\* straight to TESTING.
C10_UiReviewIffUiFileBuilt ==
    (mode = "process_task" /\ (Visited("UI_REVIEWING") \/ Visited("TESTING"))) =>
        (Visited("UI_REVIEWING") <=> BuiltUiFile)

\* C13: in each validation phase of process_task (Review, UI review, Test, QA)
\* the failure of every parallel instance is fatal, the task ends FAILED; the
\* failure of fewer instances is tolerated and the phase goes on.
C13_TotalFailureIsFatal ==
    mode = "process_task" =>
        /\ obs.all_raised => (pc = "done" /\ task.status = "FAILED")
        /\ (obs.instance_raised /\ ~obs.all_raised /\ raised = NoExc /\ ~obs.loop_failed
               /\ pc = "done") => task.status \in { "SHIPPED", "PARTIAL" }

\* C16: a fix loop that returns FAILED to process_task, in whichever phase,
\* makes the task end FAILED, never SHIPPED or PARTIAL.
C16_FailedLoopFailsTask ==
    (mode = "process_task" /\ obs.loop_failed) =>
        (pc = "done" /\ task.status = "FAILED")

-----------------------------------------------------------------------------
(* Claims about sequences of calls on one task, checked under SpecOps *)

Rank(status) ==
    CASE status = "TODO"         -> 0
      [] status = "PLANNING"     -> 1
      [] status = "BUILDING"     -> 2
      [] status = "REVIEWING"    -> 3
      [] status = "UI_REVIEWING" -> 4
      [] status = "TESTING"      -> 5
      [] status = "QA_CHECKING"  -> 6
      [] OTHER                   -> 7

Terminal == { "SHIPPED", "PARTIAL", "FAILED" }

\* C11: over any sequence of process_task, stream_process and move_to_stage
\* calls the status only moves forward in the order TODO, PLANNING, BUILDING,
\* REVIEWING, UI_REVIEWING, TESTING, QA_CHECKING, terminal: no status set is
\* earlier in that order than the one it replaces.
C11_StatusOnlyMovesForward ==
    \A i \in 1..(Len(visited) - 1) : Rank(visited[i]) <= Rank(visited[i + 1])

\* C12: once the status is SHIPPED, PARTIAL or FAILED, no step of a later call
\* changes the task's status, spec, file lists, fix_loop_stats or error.
C12_TerminalTaskImmutable ==
    [][task.status \in Terminal => task' = task]_vars

-----------------------------------------------------------------------------
(* Status-change notifications *)

\* C21: every change of a task's status made by the orchestrator stamps
\* updated_at and notifies the listener exactly once before the next change:
\* a step that changes the status advances the stamp count by one.
C21_EveryStatusChangeStamps ==
    [][task'.status # task.status => task'.updated_at = task.updated_at + 1]_vars

\* self._on_status_change(task): the listener is handed the orchestrator's
\* own Task object, so what it holds afterwards is that object
ListenerHolds == task

\* C22: the task a listener received is a snapshot: the value it holds
\* changes only when a new status-change event is delivered.
C22_ListenerHoldsSnapshot ==
    [][task'.updated_at = task.updated_at => ListenerHolds' = ListenerHolds]_vars

-----------------------------------------------------------------------------
(* process_tasks_parallel *)

\* C23: process_tasks_parallel writes a task's status and error only on
\* behalf of the run created for that task's own id, whatever the input list.
C23_WritesOnlyOnBehalfOfOwnId ==
    \A w \in pp.writes : w[1] = w[2]

-----------------------------------------------------------------------------
(* Unknown task ids *)

\* C24: a call with an unknown task id is rejected before any phase:
\* process_task and move_to_stage raise "Task <id> not found", stream_process
\* yields that single error chunk and raises nothing; no collaborator is
\* awaited and the task, its status history included, is left as it was.
C24_UnknownIdRejectedBeforeAnyPhase ==
    [][obs'.ncalls # obs.ncalls /\ obs'.rejected # "none" =>
          /\ task' = task
          /\ visited' = visited
          /\ calls' = calls
          /\ pc' = "done"
          /\ IF obs'.rejected = "stream_process"
             THEN /\ raised' = NoExc
                  /\ obs'.yielded =
                        << [type |-> "error", message |-> NotFound(UnknownId)] >>
             ELSE /\ raised' = NotFound(UnknownId)
                  /\ obs'.yielded = << >>]_vars

\* move_to_stage was rejected on a task that an earlier call had left BUILDING
C24_Witness ==
    /\ obs.rejected = "move_to_stage"
    /\ raised = NotFound(UnknownId)
    /\ task.status = "BUILDING"
    /\ task.updated_at > 1

-----------------------------------------------------------------------------
(* Results of failed runs *)

\* C25: when a run fails after Build succeeded, the result it returns still
\* carries the files Build created and modified (here for the FeatureResult of
\* process_feature).
C25_FailedResultKeepsBuildFiles ==
    feat.pc = "returned" /\ feat.result.status = "failed" /\ feat.built # << >> =>
        /\ feat.result.files_created = feat.built[1]
        /\ feat.result.files_modified = feat.built[2]

-----------------------------------------------------------------------------
(* The fix loop: termination, accounting and sequencing *)

\* the finding-id sets of the iterations so far, the one about to be tested
\* at the loop head included
IdHistory ==
    IF pc \in { "fl_top", "fl_returned" }
    THEN Append(previous_finding_ids, IdSet(current_findings))
    ELSE previous_finding_ids

\* every fix succeeded, every validate asked for another fix, and the findings
\* alternate between two different non-empty id sets
AlternatingRun ==
    /\ mode = "loop"
    /\ calls.debug = 0
    /\ ~obs.cleared
    /\ \A i \in 1..Len(IdHistory) : IdHistory[i] # { }
    /\ \A i \in 1..(Len(IdHistory) - 1) : IdHistory[i] # IdHistory[i + 1]
    /\ \A i \in 1..(Len(IdHistory) - 2) : IdHistory[i] = IdHistory[i + 2]

C27_ClearedCountsCurrentFindings ==
    [][pc = "await_validate" /\ obs'.cleared =>
          /\ issues_fixed_total' = issues_fixed_total + Len(current_findings)
          /\ task'.fix_loop_stats =
                Append(task.fix_loop_stats,
                       [phase |-> phase, loops_run |-> loop_count,
                        issues_fixed |-> issues_fixed_total + Len(current_findings),
                        issues_remaining |-> 0, max_loops_reached |-> FALSE])
          /\ loop_result' = "FIXED"
          /\ remaining' = << >>
          /\ pc' = "fl_returned"
          /\ calls' = calls]_vars

\* validate cleared the findings in a later iteration, after some had been
\* counted as fixed or as new in earlier ones
C27_Witness ==
    /\ mode = "loop"
    /\ pc = "fl_returned"
    /\ obs.cleared
    /\ loop_count >= 2
    /\ current_findings # << >>
    /\ task.fix_loop_stats[Len(task.fix_loop_stats)].issues_fixed # Len(current_findings)

\* C28: a validate result that asks for another fix and lists more findings
\* than before is accepted: its findings become the current ones, the
\* negative difference is added to the fixed total, and the loop goes back to
\* its head, where the deadlock test is applied as in every iteration.
C28_GrowingFindingsAccepted ==
    [][pc = "await_validate" /\ Len(current_findings') > Len(current_findings) =>
          /\ issues_fixed_total' =
                issues_fixed_total - (Len(current_findings') - Len(current_findings))
          /\ pc' = "fl_top"
          /\ loop_result' = NoResult
          /\ raised' = NoExc
          /\ previous_finding_ids' = previous_finding_ids]_vars

\* the loop is back at its head with more findings than it started with and a
\* negative fixed total
C28_Witness ==
    /\ mode = "loop"
    /\ pc = "fl_top"
    /\ loop_count >= 1
    /\ Len(current_findings) > Len(initial_findings)
    /\ issues_fixed_total < 0

\* the collaborator calls of a run so far pair up: every fix that ended was
\* followed by one validate or one Debugger call, and a fix is pending only
\* while the coroutine waits for it
CallsPairUp ==
    /\ pc = "await_fix" => calls.fix = calls.validate + calls.debug + 1
    /\ pc \in { "fl_top", "await_validate", "await_debug" } =>
          calls.fix = calls.validate + calls.debug

\* a collaborator is called only from the point that precedes it, one at a time
OneCallAtATime ==
    /\ calls'.fix # calls.fix =>
          pc = "fl_top" /\ pc' = "await_fix" /\ calls' = [calls EXCEPT !.fix = @ + 1]
    /\ calls'.validate # calls.validate =>
          /\ pc = "await_fix" /\ pc' = "await_validate"
          /\ calls' = [calls EXCEPT !.validate = @ + 1]
    /\ calls'.debug # calls.debug =>
          /\ pc = "await_fix" /\ pc' = "await_debug"
          /\ calls' = [calls EXCEPT !.debug = @ + 1]

\* C29: within one run of _run_fix_loop the collaborator calls are strictly
\* sequential: at most one of fix, Debugger and validate is in flight,
\* validate (or the Debugger) starts only when that iteration's fix has
\* returned, and the next fix starts only after the validate or Debugger call
\* of the iteration before has completed.
C29_CollaboratorCallsSequential ==
    [](CallsPairUp) /\ [][OneCallAtATime]_vars

\* the third fix is awaited after a Debugger call and a validate call completed
C29_Witness ==
    /\ mode = "loop"
    /\ pc = "await_fix"
    /\ calls.fix >= 3
    /\ calls.validate >= 1
    /\ calls.debug >= 1

-----------------------------------------------------------------------------
(* Flags of the merged result *)

\* C30: every MergedResult returned by validate_parallel or
\* validate_with_consensus has fix_required exactly when its findings list is
\* non-empty and success exactly when agent_count > 0, whatever flags the
\* instances reported.
C30_MergedFlagsFollowFindingsAndCount ==
    vp_pc \in { "returned", "returned_consensus" } =>
        /\ merged.fix_required = (merged.findings # << >>)
        /\ merged.success = (merged.agent_count > 0)

\* an instance reported failure and fix_required, yet the merged result
\* reports success and no fix required
C30_Witness ==
    /\ vp_pc \in { "returned", "returned_consensus" }
    /\ \E i \in 1..Len(results) :
          /\ results[i].kind = "result"
          /\ results[i].fix_required
          /\ ~results[i].success
    /\ ~merged.fix_required
    /\ merged.success

-----------------------------------------------------------------------------
(* process_feature: planning and the returned status *)

\* builder.build(current_spec) has been called by this run of process_feature
BuildCalled == feat.pc \notin { "unused", "idle", "await_plan" } /\ feat.build_spec # ""

\* C31: when process_feature is given a non-empty spec, Planning is skipped:
\* the planner is not invoked, no planning outcome is recorded, and Build
\* receives the given spec unchanged.
C31_GivenSpecSkipsPlanning ==
    feat.spec # "" =>
        /\ feat.planner_calls = 0
        /\ \A i \in 1..Len(feat.result.phases) : feat.result.phases[i].phase # "planning"
        /\ BuildCalled => feat.build_spec = feat.spec

-----------------------------------------------------------------------------
(* process_task: residual findings *)

\* a fix loop of this run returned findings it had not resolved: it returned
\* FAILED, or it declared a deadlock (its FixLoopStats entry has
\* issues_remaining > 0)
LoopLeftResidual ==
    \/ obs.loop_failed
    \/ \E i \in 1..Len(task.fix_loop_stats) : task.fix_loop_stats[i].issues_remaining > 0

\* C32: process_task reaches SHIPPED only if no phase's fix loop ended with
\* residual findings; a deadlock with unresolved findings in any phase
\* prevents SHIPPED.
C32_ShippedOnlyWithoutResidual ==
    (mode = "process_task" /\ task.status = "SHIPPED") => ~LoopLeftResidual

-----------------------------------------------------------------------------
(* The fix loop: the Debugger branch, the loop counter and the statistics *)

\* C33: after a fix that returned failure, if the Debugger returns
\* fix_required = true with a non-empty findings list, those findings replace
\* the current ones and the loop goes back to its head without calling
\* validate; otherwise the loop returns FAILED with the current findings
\* unchanged and validate is not invoked.
C33_DebuggerReplacesOrFails ==
    [][pc = "await_debug" /\ pc' \notin { "await_debug", "raised" } =>
          /\ calls' = calls
          /\ IF obs'.debug[1] /\ obs'.debug[2] # << >>
             THEN /\ current_findings' = obs'.debug[2]
                  /\ pc' = "fl_top"
                  /\ loop_result' = NoResult
                  /\ loop_count' = loop_count
                  /\ previous_finding_ids' = previous_finding_ids
             ELSE /\ loop_result' = "FAILED"
                  /\ remaining' = current_findings
                  /\ pc' = "fl_returned"]_vars

\* the Debugger's findings have replaced different ones, and the loop is back
\* at its head with validate never called
C33_Witness ==
    /\ mode = "loop"
    /\ pc = "fl_top"
    /\ obs.debug # << >>
    /\ current_findings = obs.debug[2]
    /\ current_findings # initial_findings
    /\ calls.validate = 0

\* C34: the loop counter counts only iterations that passed the deadlock
\* test: at every exit that records statistics (FIXED or MAX_LOOPS_REACHED)
\* the loops_run recorded equals the number of times fix was invoked.
C34_LoopsRunCountsFixCalls ==
    (mode = "loop" /\ pc = "fl_returned" /\ task.fix_loop_stats # << >>) =>
        task.fix_loop_stats[Len(task.fix_loop_stats)].loops_run = calls.fix

\* C35: FIXED is decided from validate's fix_required flag alone: a validate
\* result with fix_required = false whose success flag is false (the
\* validator itself failed) ends the loop with (FIXED, []) and counts all
\* current findings as fixed.
C35_FailedValidatorCountsAsFixed ==
    [][pc = "await_validate" /\ obs'.validator_failed =>
          /\ loop_result' = "FIXED"
          /\ remaining' = << >>
          /\ pc' = "fl_returned"
          /\ issues_fixed_total' = issues_fixed_total + Len(current_findings)
          /\ task'.fix_loop_stats[Len(task'.fix_loop_stats)].issues_remaining = 0]_vars

\* the validator failed while two findings were open, and the loop returned
\* FIXED with both counted as fixed
C35_Witness ==
    /\ mode = "loop"
    /\ pc = "fl_returned"
    /\ obs.validator_failed
    /\ loop_result = "FIXED"
    /\ Len(current_findings) = 2
    /\ task.fix_loop_stats[Len(task.fix_loop_stats)].issues_fixed >= 2

\* C36: in every FixLoopStats entry appended by a run in which the Debugger
\* never replaced the findings, issues_fixed + issues_remaining equals the
\* number of initial findings (issues_fixed is negative when more findings
\* remain than the run started with).
C36_FixedPlusRemainingIsInitial ==
    (mode = "loop" /\ calls.debug = 0) =>
        \A i \in 1..Len(task.fix_loop_stats) :
            task.fix_loop_stats[i].issues_fixed + task.fix_loop_stats[i].issues_remaining
                = Len(initial_findings)

\* a deadlock was declared with more findings open than the run started with
C36_Witness ==
    /\ mode = "loop"
    /\ calls.debug = 0
    /\ pc = "fl_returned"
    /\ loop_result = "MAX_LOOPS_REACHED"
    /\ task.fix_loop_stats[Len(task.fix_loop_stats)].issues_fixed < 0
    /\ task.fix_loop_stats[Len(task.fix_loop_stats)].issues_remaining > Len(initial_findings)

\* C37: a call of _run_fix_loop appends at most one FixLoopStats entry:
\* exactly one when it returns because validate reported fix_required = false
\* or because of a deadlock, and none when it returns FAILED, when the initial
\* findings are empty, or when the loop ends because validate returned
\* fix_required = true with an empty findings list.
C37_AtMostOneStatsEntryPerCall ==
    mode = "loop" =>
        /\ Len(task.fix_loop_stats) <= 1
        /\ pc # "fl_returned" => task.fix_loop_stats = << >>
        /\ (pc = "fl_returned" /\ loop_result = "MAX_LOOPS_REACHED") =>
              Len(task.fix_loop_stats) = 1
        /\ (pc = "fl_returned" /\ loop_result = "FIXED" /\ obs.cleared) =>
              Len(task.fix_loop_stats) = 1
        /\ (pc = "fl_returned" /\ loop_result = "FIXED" /\ ~obs.cleared) =>
              task.fix_loop_stats = << >>
        /\ (pc = "fl_returned" /\ loop_result = "FAILED") => task.fix_loop_stats = << >>
        /\ (pc = "fl_returned" /\ initial_findings = << >>) =>
              (task.fix_loop_stats = << >> /\ calls = NoCalls)

\* validate asked for another fix but listed no findings: the loop ended
\* FIXED without a FixLoopStats entry
C37_Witness ==
    /\ mode = "loop"
    /\ pc = "fl_returned"
    /\ loop_result = "FIXED"
    /\ ~obs.cleared
    /\ calls.validate >= 1
    /\ initial_findings # << >>
    /\ task.fix_loop_stats = << >>

-----------------------------------------------------------------------------
(* process_task: instances that fail without raising *)

\* C38: _merge_results counts every result that is not an exception as a
\* contributor, failure results included: when every instance of a parallel
\* validation returned a failure result without raising, the merged success
\* is true and process_task does not fail the phase but goes on to the next.
C38_FailureResultsDoNotFailPhase ==
    (mode = "process_task" /\ obs.all_failed) =>
        /\ raised = NoExc
        /\ task.status \in { "UI_REVIEWING", "TESTING", "QA_CHECKING", "SHIPPED" }
        /\ pc \in { "await_ui", "await_test", "await_qa", "done" }

\* both reviewers returned a failure result and the run went on to the phase
\* after the code review
C38_Witness ==
    /\ mode = "process_task"
    /\ obs.all_failed
    /\ visited[Len(visited) - 1] = "REVIEWING"
    /\ pc \in { "await_ui", "await_test" }
    /\ task.error = None

-----------------------------------------------------------------------------
(* The fix loop when every fix fails *)

\* so far every fix of the run that ended returned failure, and the Debugger
\* answered each time with findings of one and the same non-empty id set
FailingRun ==
    /\ mode = "loop"
    /\ calls.validate = 0
    /\ calls.debug >= 1
    /\ pc \in { "fl_top", "await_fix", "await_debug", "fl_returned" }
    /\ loop_result # "FAILED"
    /\ \A i \in 2..Len(IdHistory) : IdHistory[i] # { } /\ IdHistory[i] = IdHistory[2]

\* the last MAX_IDENTICAL_LOOPS iterations all had the id set now at the loop head
HeadSetSeenThrice ==
    /\ Len(previous_finding_ids) >= MAX_IDENTICAL_LOOPS
    /\ \A i \in 1..MAX_IDENTICAL_LOOPS :
          previous_finding_ids[Len(previous_finding_ids) + 1 - i] = IdSet(current_findings)

\* in such a run the Debugger was called once per fix that failed, at most
\* MAX_IDENTICAL_LOOPS + 1 fixes are attempted, and the only return is the
\* deadlock
FailingRunBounded ==
    FailingRun =>
        /\ calls.fix <= MAX_IDENTICAL_LOOPS + 1
        /\ pc \in { "fl_top", "await_debug", "fl_returned" } => calls.debug = calls.fix
        /\ pc = "await_fix" => calls.debug = calls.fix - 1
        /\ pc = "fl_returned" =>
              /\ loop_result = "MAX_LOOPS_REACHED"
              /\ remaining = current_findings
              /\ HeadSetSeenThrice

\* the iterations whose fix failed count toward the deadlock test
FailingRunDeadlocks ==
    (FailingRun /\ pc = "fl_top" /\ HeadSetSeenThrice) =>
        (pc' = "fl_returned" /\ loop_result' = "MAX_LOOPS_REACHED" /\ calls' = calls)

-----------------------------------------------------------------------------
(* process_feature: the status of the returned FeatureResult *)

\* what the except clause of the run that returned had caught
StageFailed ==
    feat.result.error \in { << "Planning failed: " >> \o Boom,
                            << "Building failed: " >> \o Boom }

CollaboratorRaised == feat.result.error = Boom

ListenerRaised == feat.result.error = ListenerBoom

ExceptionOccurred == StageFailed \/ CollaboratorRaised \/ ListenerRaised

====
